---- MODULE Spec2Model ----
(***************************************************************************)
(* Monthly simulation engine (backend/engine/simulator.py) and period      *)
(* aggregation (backend/engine/aggregate.py) of the personal finance       *)
(* planner.                                                                *)
(*                                                                         *)
(* Numbers.  The program computes in binary floating point; the model      *)
(* computes in exact rational arithmetic.  A number is a pair <<n, d>> in  *)
(* lowest terms with d > 0.  Inputs are chosen so that every intermediate  *)
(* numerator and denominator fits TLC's integers.                          *)
(*                                                                         *)
(* Strings that the program inspects (category, account name) are tuples   *)
(* of one-character strings, so that lower() and substring tests are       *)
(* computed and not assumed.                                               *)
(***************************************************************************)
EXTENDS Integers, Sequences, FiniteSets, TLC

VARIABLES
    cfg,              \* the PlanConfig handed to simulate_monthly
    n_months,         \* simulator.py:56
    account_states,   \* list of per-account working dicts
    income_states,    \* list of per-income working dicts
    spending_states,  \* list of per-spending working dicts
    primary_cash,     \* index into account_states of the dict primary_cash aliases
    cash_buffer,      \* simulator.py:65
    records,          \* list of emitted snapshots
    m,                \* loop variable of "for m in range(n_months)"
    pc,               \* position inside the loop body
    idx,              \* position of the end-action loop (simulator.py:116)
    loc,              \* the month's locals (total_income, tax_amount, ...)
    df,               \* aggregate_period: the input table
    freq,             \* aggregate_period: the frequency argument
    out1,             \* aggregate_period(df, freq)
    out2,             \* aggregate_period(out1, freq)
    scenarios,        \* ScenarioState.scenarios: name -> table, in insertion order
    scenarios_file,   \* the content of the scenarios file: name -> records
    history,          \* the store operations performed so far
    response,         \* what the last store call or request returned
    plan_given,       \* the plan as the caller built it before calling simulate_monthly
    first_run,        \* what the first call of simulate_monthly returned
    plans,            \* PlanState.plans
    plans_file,       \* the content of the plans file
    pipeline,         \* a CategorizerPipeline and the transaction it is asked about
    result,           \* what CategorizerPipeline.categorize returned
    request,          \* the JSON payload of the POST /api/scenarios being handled
    ledger            \* the tables of the transactions database

simVars == <<cfg, n_months, account_states, income_states, spending_states,
             primary_cash, cash_buffer, records, m, pc, idx, loc>>
simVarsButPc == <<cfg, n_months, account_states, income_states, spending_states,
                  primary_cash, cash_buffer, records, m, idx, loc>>
aggVars == <<df, freq, out1, out2>>
storeVars == <<scenarios, scenarios_file, history, response>>
runVars == <<plan_given, first_run>>
planVars == <<plans, plans_file>>
catVars == <<pipeline, result>>
restVars == <<request, ledger>>
extVars == <<scenarios, scenarios_file, history, response, plan_given, first_run, plans, plans_file,
             pipeline, result, request, ledger>>
vars == <<cfg, n_months, account_states, income_states, spending_states,
          primary_cash, cash_buffer, records, m, pc, idx, loc,
          df, freq, out1, out2,
          scenarios, scenarios_file, history, response, plan_given, first_run,
          plans, plans_file, pipeline, result, request, ledger>>

-----------------------------------------------------------------------------
(* Bounds of the model *)

\* largest number of accounts in a plan
MaxAccounts == 2

\* largest number of scenarios in an aggregated table
MaxScenarios == 2

\* largest number of months of one scenario in an aggregated table
MaxAggMonths == 14

-----------------------------------------------------------------------------
(* Exact rational arithmetic standing for Python floats *)

Abs(x) == IF x < 0 THEN -x ELSE x

Max(a, b) == IF a >= b THEN a ELSE b

Min(a, b) == IF a <= b THEN a ELSE b

RECURSIVE GCD(_, _)
GCD(a, b) == IF b = 0 THEN a ELSE GCD(b, a % b)

\* the rational n/d in lowest terms, d # 0
Rat(n, d) ==
    LET g == GCD(Abs(n), Abs(d))
        s == IF d < 0 THEN -1 ELSE 1
    IN  <<(s * n) \div g, (s * d) \div g>>

Zero == <<0, 1>>

One == <<1, 1>>

FromInt(k) == <<k, 1>>

RAdd(x, y) ==
    LET g == GCD(x[2], y[2])
        l == (x[2] \div g) * y[2]
    IN  Rat(x[1] * (l \div x[2]) + y[1] * (l \div y[2]), l)

RNeg(x) == <<-x[1], x[2]>>

RSub(x, y) == RAdd(x, RNeg(y))

RMul(x, y) ==
    LET g1 == GCD(Abs(x[1]), y[2])
        g2 == GCD(Abs(y[1]), x[2])
    IN  Rat((x[1] \div g1) * (y[1] \div g2), (x[2] \div g2) * (y[2] \div g1))

RDivInt(x, k) == RMul(x, <<1, k>>)

RAbs(x) == <<Abs(x[1]), x[2]>>

RIsNeg(x) == x[1] < 0

RMax(x, y) == IF RIsNeg(RSub(x, y)) THEN y ELSE x

RECURSIVE RPow(_, _)
RPow(x, k) == IF k = 0 THEN One ELSE RMul(x, RPow(x, k - 1))

RECURSIVE RSum(_)
RSum(s) == IF s = <<>> THEN Zero ELSE RAdd(Head(s), RSum(Tail(s)))

\* Python round(): to the nearest integer, ties to the even one
RoundHalfEven(x) ==
    LET fl  == x[1] \div x[2]
        rem == x[1] - fl * x[2]
    IN  IF 2 * rem < x[2] THEN fl
        ELSE IF 2 * rem > x[2] THEN fl + 1
        ELSE IF fl % 2 = 0 THEN fl ELSE fl + 1

-----------------------------------------------------------------------------
(* Strings as tuples of characters *)

LowerChar(c) ==
    CASE c = "A" -> "a" [] c = "C" -> "c" [] c = "D" -> "d" [] c = "E" -> "e"
      [] c = "B" -> "b" [] c = "T" -> "t" [] c = "H" -> "h" [] c = "S" -> "s"
      [] c = "I" -> "i" [] c = "N" -> "n" [] c = "R" -> "r" [] c = "V" -> "v"
      [] c = "F" -> "f" [] c = "X" -> "x" [] c = "U" -> "u" [] c = "G" -> "g"
      [] c = "P" -> "p"
      [] OTHER -> c

\* str.lower()
Lower(s) == [k \in 1..Len(s) |-> LowerChar(s[k])]

\* "".join(s): the tuple of characters as one string
RECURSIVE join(_)
join(s) == IF s = <<>> THEN "" ELSE Head(s) \o join(Tail(s))

\* "sub in s"
Contains(s, sub) ==
    \E k \in 0..(Len(s) - Len(sub)) :
        \A j \in 1..Len(sub) : s[k + j] = sub[j]

-----------------------------------------------------------------------------
(* Data model: backend/data_model *)

Null == <<>>

cash == <<"c", "a", "s", "h">>

debt == <<"d", "e", "b", "t">>

investment == <<"i", "n", "v", "e", "s", "t", "m", "e", "n", "t">>

asset == <<"a", "s", "s", "e", "t">>

hsa == <<"h", "s", "a">>

\* AccountItem(...), accounts/items.py:9-18
AccountItem(name, category, principal, apr, interest_rate, start_year, end_year, end_action) ==
    [name |-> name, category |-> category, principal |-> principal, apr |-> apr,
     interest_rate |-> interest_rate, start_year |-> start_year,
     end_year |-> end_year, end_action |-> end_action]

\* AccountItem.normalized_category
normalized_category(item) == Lower(item.category)

\* AccountItem.monthly_rate
monthly_rate(item) ==
    LET rate == IF item.apr # Zero THEN item.apr ELSE item.interest_rate
    IN  RDivInt(rate, 12)

\* CashflowItem(...), cashflow.py:105-113
CashflowItem(name, annual_amount, category, start_year, end_year, flow_type, taxable, inflation_rate) ==
    [name |-> name, annual_amount |-> annual_amount, category |-> category,
     start_year |-> start_year, end_year |-> end_year, flow_type |-> flow_type,
     taxable |-> taxable, inflation_rate |-> inflation_rate]

\* CashflowItem.amount_per_month
amount_per_month(item) == RDivInt(item.annual_amount, 12)

-----------------------------------------------------------------------------
(* The plans the simulator is run on *)

\* month k of the plan as an offset in years
Months(k) == Rat(k, 12)

HalfMonths(k) == Rat(k, 24)

CashReserve == <<"C", "a", "s", "h", " ", "R", "e", "s", "e", "r", "v", "e">>

AccountItems ==
    { \* plain cash, the whole horizon
      AccountItem(<<"C">>, cash, FromInt(1000), Zero, Zero, Zero, Zero, "keep"),
      \* cash that starts in month 3 and ends in month 6, shrinking, kept
      AccountItem(<<"C", "L">>, <<"C", "a", "s", "h">>, FromInt(96), Zero, FromInt(-6),
                  Months(3), Months(6), "keep"),
      \* cash that liquidates (into the primary cash account) in month 3
      AccountItem(<<"C", "S">>, cash, FromInt(200), Zero, Zero, Zero, Months(3),
                  "liquidate_to_cash"),
      \* investment doubling each month, liquidated in month 5; apr goes before
      \* interest_rate
      AccountItem(<<"I">>, investment, FromInt(8), FromInt(12), FromInt(3), Zero,
                  Months(5), "liquidate_to_cash"),
      \* shrinking investment liquidated in month 2; offsets that need rounding
      \* (0.5 and 1.5 months)
      AccountItem(<<"I", "E">>, investment, FromInt(16), Zero, FromInt(-6),
                  HalfMonths(1), HalfMonths(3), "liquidate_to_cash"),
      \* tax-advantaged investment, growing, dropped in month 8
      AccountItem(<<"R", "o", "t", "h", " ", "H", "S", "A">>, investment, FromInt(16),
                  FromInt(6), Zero, Months(2), Months(8), "drop"),
      \* debt given as a positive principal, growing from month 1 to the end of
      \* the horizon (no end offset); it starts after a horizon of one month
      AccountItem(<<"D">>, <<"D", "e", "b", "t">>, FromInt(64), FromInt(6), Zero, Months(1),
                  Zero, "keep"),
      \* debt given as a negative principal, window inverted (start 6, end 2)
      AccountItem(<<"D", "N">>, debt, FromInt(-32), Zero, Zero, Months(6), Months(2),
                  "drop"),
      \* investment with a negative balance, the whole horizon, start before the plan
      AccountItem(<<"I", "N">>, <<"I", "n", "v", "e", "s", "t", "m", "e", "n", "t">>,
                  FromInt(-8), FromInt(12), Zero, Months(-3), Zero, "keep"),
      \* growing asset kept after month 4
      AccountItem(<<"K">>, asset, FromInt(50), FromInt(6), Zero, Months(1), Months(4),
                  "keep") }

salary == CashflowItem("Salary", FromInt(12000), "salary", Zero, Zero, "income", TRUE, Zero)

other == CashflowItem("Gift", FromInt(6000), "other", Months(2), Months(6), "income", FALSE, Zero)

living == CashflowItem("Living", FromInt(2400), "living", Zero, Zero, "spending", FALSE, Zero)

\* spending that inflates; 1 + rate = 4096 has the exact twelfth root 2
parents == CashflowItem("Parents", FromInt(1200), "parents", Months(3), Months(7), "spending",
                        FALSE, FromInt(4095))

\* <<incomes, spendings>> of a plan
Cashflows ==
    { <<<<>>, <<>>>>,
      <<<<salary>>, <<>>>>,
      <<<<salary, other>>, <<living, parents>>>> }

\* PlanConfig.years: no horizon and one year.  Longer horizons compound past
\* the integers TLC computes with.
Years == {0, 1}

TaxRates == {Zero, Rat(1, 4)}

AccountLists == UNION {[1..k -> AccountItems] : k \in 0..MaxAccounts}

\* PlanConfig(...), plan.py:11-19
Plans ==
    { [name |-> "Plan", start_year |-> 2024, years |-> y, tax_rate |-> t,
       accounts |-> a, incomes |-> c[1], spendings |-> c[2],
       living_inflation_rate |-> Zero] :
        y \in Years, t \in TaxRates, a \in AccountLists, c \in Cashflows }

-----------------------------------------------------------------------------
(* simulator.py: setup *)

\* the window of an item, simulator.py:9-12 and 30-33
start_month(item) == Max(0, RoundHalfEven(RMul(item.start_year, FromInt(12))))

end_month_unclamped(item, n) ==
    IF item.end_year[1] <= 0 THEN n - 1
    ELSE Min(RoundHalfEven(RMul(item.end_year, FromInt(12))), n - 1)

\* a slip: an end month before the start month is left as computed
end_month_inverted(item, n) ==
    IF item.end_year[1] <= 0 THEN n - 1
    ELSE Min(RoundHalfEven(RMul(item.end_year, FromInt(12))), n - 1)

end_month(item, n) ==
    IF end_month_unclamped(item, n) < start_month(item) THEN start_month(item)
    ELSE end_month_unclamped(item, n)

\* a slip: the principal is taken as given for every category
initial_value_as_given(item) == item.principal

\* simulator.py:13-15
initial_value(item) ==
    IF normalized_category(item) = debt THEN RNeg(RAbs(item.principal))
    ELSE item.principal

\* simulator.py:8-26
_build_account_state(item, n) ==
    [item |-> item,
     value |-> Zero,
     initial_value |-> initial_value(item),
     rate_m |-> monthly_rate(item),
     start_m |-> start_month(item),
     end_m |-> end_month(item, n),
     active |-> FALSE,
     completed |-> FALSE,
     taxable_investment |->
         normalized_category(item) = investment /\ ~Contains(Lower(item.name), hsa)]

\* simulator.py:29-41
_build_cashflow_state(item, n) ==
    [item |-> item,
     start_m |-> start_month(item),
     end_m |-> end_month(item, n),
     amount_m |-> amount_per_month(item),
     taxable |-> item.taxable,
     inflation_rate |-> item.inflation_rate]

\* indexes of the cash accounts, simulator.py:45
cash_states(states) ==
    {k \in 1..Len(states) : normalized_category(states[k].item) = cash}

virtual_cash == AccountItem(CashReserve, cash, Zero, Zero, Zero, Zero, Zero, "keep")

\* simulator.py:44-52: the states after the call (the virtual account inserted first)
_ensure_primary_cash_states(states, n) ==
    IF cash_states(states) # {} THEN states
    ELSE <<[_build_account_state(virtual_cash, n) EXCEPT !.active = TRUE]>> \o states

\* a slip: the last cash account is taken instead of the first
_ensure_primary_cash_last(states, n) ==
    IF cash_states(states) # {}
    THEN CHOOSE k \in cash_states(states) : \A j \in cash_states(states) : k >= j
    ELSE 1

\* simulator.py:44-52: the index of the state the call returns
_ensure_primary_cash(states, n) ==
    IF cash_states(states) # {}
    THEN CHOOSE k \in cash_states(states) : \A j \in cash_states(states) : k <= j
    ELSE 1

\* a slip: the horizon is not clamped to one month
horizon_months_unclamped(plan) == plan.years * 12

\* simulator.py:56
horizon_months(plan) == Max(1, plan.years * 12)

-----------------------------------------------------------------------------
(* simulator.py: the loop body, one operator per block *)

in_window(state, mm) == state.start_m <= mm /\ mm <= state.end_m

\* simulator.py:73-74
_sum_cashflow(states, mm) ==
    RSum([k \in 1..Len(states) |->
            IF in_window(states[k], mm) THEN states[k].amount_m ELSE Zero])

\* simulator.py:78-82
taxable_income_of(states, mm) ==
    RSum([k \in 1..Len(states) |->
            IF in_window(states[k], mm) /\ states[k].taxable
            THEN states[k].amount_m ELSE Zero])

\* a slip: the "not active" test is missing, so the balance is reset every month
activate_every_month(states, mm) ==
    [k \in 1..Len(states) |->
        IF ~states[k].completed /\ mm >= states[k].start_m
        THEN [states[k] EXCEPT !.value = states[k].initial_value, !.active = TRUE]
        ELSE states[k]]

\* a slip: the "completed" test is missing
activate_completed_too(states, mm) ==
    [k \in 1..Len(states) |->
        IF mm >= states[k].start_m /\ ~states[k].active
        THEN [states[k] EXCEPT !.value = states[k].initial_value, !.active = TRUE]
        ELSE states[k]]

\* simulator.py:84-89
activate(states, mm) ==
    [k \in 1..Len(states) |->
        IF ~states[k].completed /\ mm >= states[k].start_m /\ ~states[k].active
        THEN [states[k] EXCEPT !.value = states[k].initial_value, !.active = TRUE]
        ELSE states[k]]

\* a slip: the yield is not floored at 0, so losses reduce the taxable growth
taxable_investment_growth_with_losses(states, mm) ==
    RSum([k \in 1..Len(states) |->
            IF states[k].active /\ ~states[k].completed
               /\ mm <= states[k].end_m /\ states[k].taxable_investment
            THEN RMul(states[k].value, states[k].rate_m)
            ELSE Zero])

\* simulator.py:91-97
taxable_investment_growth_of(states, mm) ==
    RSum([k \in 1..Len(states) |->
            IF states[k].active /\ ~states[k].completed
               /\ mm <= states[k].end_m /\ states[k].taxable_investment
            THEN RMax(Zero, RMul(states[k].value, states[k].rate_m))
            ELSE Zero])

\* a slip: the tax is not subtracted
net_cashflow_before_tax(total_income, total_spending, tax_amount) ==
    RSub(total_income, total_spending)

\* simulator.py:101, where total_spending is still the 0.0 of line 77
net_cashflow_of(total_income, total_spending, tax_amount) ==
    RSub(RSub(total_income, total_spending), tax_amount)

\* a slip: the buffer is emptied without being added to the balance
apply_cash_dropping_buffer(states, p, buffer, net) ==
    IF states[p].active
    THEN <<[states EXCEPT ![p].value = RAdd(@, net)], Zero>>
    ELSE <<states, RAdd(buffer, net)>>

\* simulator.py:103-108: <<account states, cash_buffer>> after the block
apply_cash(states, p, buffer, net) ==
    IF states[p].active
    THEN <<[states EXCEPT ![p].value = RAdd(RAdd(@, buffer), net)], Zero>>
    ELSE <<states, RAdd(buffer, net)>>

\* a slip: simple interest on the initial value instead of compounding
apply_growth_simple(states, mm) ==
    [k \in 1..Len(states) |->
        IF states[k].active /\ ~states[k].completed /\ mm <= states[k].end_m
        THEN [states[k] EXCEPT
                !.value = RAdd(@, RMul(states[k].initial_value, states[k].rate_m))]
        ELSE states[k]]

\* a slip: primary cash grows on its balance without the month's net cash
\* flow, as if the growth came before the cash application
apply_growth_before_cash(states, mm) ==
    [k \in 1..Len(states) |->
        IF states[k].active /\ ~states[k].completed /\ mm <= states[k].end_m
        THEN IF k = primary_cash
             THEN [states[k] EXCEPT
                     !.value = RAdd(RMul(RSub(@, loc.net_cashflow),
                                         RAdd(One, states[k].rate_m)),
                                    loc.net_cashflow)]
             ELSE [states[k] EXCEPT !.value = RMul(@, RAdd(One, states[k].rate_m))]
        ELSE states[k]]

\* simulator.py:110-114
apply_growth(states, mm) ==
    [k \in 1..Len(states) |->
        IF states[k].active /\ ~states[k].completed /\ mm <= states[k].end_m
        THEN [states[k] EXCEPT !.value = RMul(@, RAdd(One, states[k].rate_m))]
        ELSE states[k]]

\* simulator.py:117-129 for the state at position k; primary_cash is position p
\* and may be the same dict as the state
end_action(states, p, k, mm) ==
    IF states[k].active /\ mm = states[k].end_m
    THEN IF states[k].item.end_action = "liquidate_to_cash"
         THEN LET credited == [states EXCEPT ![p].value = RAdd(@, states[k].value)]
              IN  [credited EXCEPT ![k].value = Zero, ![k].active = FALSE,
                                   ![k].completed = TRUE]
         ELSE IF states[k].item.end_action = "drop"
         THEN [states EXCEPT ![k].value = Zero, ![k].active = FALSE,
                             ![k].completed = TRUE]
         ELSE [states EXCEPT ![k].rate_m = Zero]
    ELSE states

\* the twelfth root, for the bases the plans use
Root12(x) ==
    CASE x = FromInt(4096) -> FromInt(2)
      [] x = One -> One
      [] x = Zero -> Zero

\* simulator.py:134-136: (1 + rate) ** ((m - start_m) / 12)
inflation_multiplier(rate, elapsed_months) ==
    IF rate # Zero THEN RPow(Root12(RAdd(One, rate)), Max(0, elapsed_months)) ELSE One

\* simulator.py:131-137
total_spending_of(states, mm) ==
    RSum([k \in 1..Len(states) |->
            IF in_window(states[k], mm)
            THEN RMul(states[k].amount_m,
                      inflation_multiplier(states[k].inflation_rate, mm - states[k].start_m))
            ELSE Zero])

\* simulator.py:5
LIQUID_CATEGORIES == {cash, investment}

\* simulator.py:158-160: the per-account columns; a later account of the same
\* name overwrites an earlier one
balances_of(states) ==
    [nm \in {states[k].item.name : k \in 1..Len(states)} |->
        LET last == CHOOSE k \in 1..Len(states) :
                        /\ states[k].item.name = nm
                        /\ \A j \in 1..Len(states) : states[j].item.name = nm => j <= k
        IN  states[last].value]

\* simulator.py:161-164
total_assets_of(states) ==
    RSum([k \in 1..Len(states) |->
            IF ~RIsNeg(states[k].value) THEN states[k].value ELSE Zero])

total_debt_of(states) ==
    RSum([k \in 1..Len(states) |->
            IF RIsNeg(states[k].value) THEN states[k].value ELSE Zero])

\* a slip: only the accounts that are active count as liquid
liquid_total_of_active(states) ==
    RSum([k \in 1..Len(states) |->
            IF states[k].active /\ normalized_category(states[k].item) \in LIQUID_CATEGORIES
            THEN states[k].value ELSE Zero])

\* simulator.py:166-167
liquid_total_of(states) ==
    RSum([k \in 1..Len(states) |->
            IF normalized_category(states[k].item) \in LIQUID_CATEGORIES
            THEN states[k].value ELSE Zero])

\* simulator.py:68-71 and 139-171
snapshot_of(plan, mm, l, total_spending, states) ==
    [Scenario |-> plan.name,
     MonthIndex |-> mm,
     Month |-> <<plan.start_year + (mm \div 12), (mm % 12) + 1>>,
     CalendarYear |-> plan.start_year + (mm \div 12),
     MonthInYear |-> (mm % 12) + 1,
     TotalIncome |-> l.total_income,
     TotalSpending |-> total_spending,
     TaxableIncome |-> l.taxable_income,
     TaxableInvestmentGrowth |-> l.taxable_investment_growth,
     TaxableBase |-> l.taxable_base,
     TotalTax |-> l.tax_amount,
     NetCashflow |-> l.net_cashflow,
     balances |-> balances_of(states),
     Liquid |-> liquid_total_of(states),
     NetWorth |-> RAdd(total_assets_of(states), total_debt_of(states))]

NoLocals ==
    [total_income |-> Zero, taxable_income |-> Zero,
     taxable_investment_growth |-> Zero, taxable_base |-> Zero,
     tax_amount |-> Zero, net_cashflow |-> Zero]

\* the variables of the parts of the program that are not running
SimIdle ==
    /\ cfg = Null
    /\ n_months = 0
    /\ account_states = <<>>
    /\ income_states = <<>>
    /\ spending_states = <<>>
    /\ primary_cash = 0
    /\ cash_buffer = Zero
    /\ records = <<>>
    /\ m = 0
    /\ idx = 0
    /\ loc = NoLocals

AggIdle ==
    /\ df = Null
    /\ freq = Null
    /\ out1 = Null
    /\ out2 = Null

StoreIdle ==
    /\ scenarios = <<>>
    /\ scenarios_file = Null
    /\ history = <<>>
    /\ response = Null

RunIdle ==
    /\ plan_given = Null
    /\ first_run = Null

PlanIdle ==
    /\ plans = <<>>
    /\ plans_file = Null

CatIdle ==
    /\ pipeline = Null
    /\ result = Null

RestIdle ==
    /\ request = Null
    /\ ledger = Null

ExtIdle == StoreIdle /\ RunIdle /\ PlanIdle /\ CatIdle /\ RestIdle

-----------------------------------------------------------------------------
(* simulate_monthly as a state machine *)

\* simulator.py:56-65
Init ==
    /\ cfg \in Plans
    /\ n_months = horizon_months(cfg)
    /\ LET n == horizon_months(cfg)
           built == [k \in 1..Len(cfg.accounts) |-> _build_account_state(cfg.accounts[k], n)]
       IN  /\ account_states = _ensure_primary_cash_states(built, n)
           /\ primary_cash = _ensure_primary_cash(built, n)
           /\ income_states =
                [k \in 1..Len(cfg.incomes) |-> _build_cashflow_state(cfg.incomes[k], n)]
           /\ spending_states =
                [k \in 1..Len(cfg.spendings) |-> _build_cashflow_state(cfg.spendings[k], n)]
    /\ records = <<>>
    /\ cash_buffer = Zero
    /\ m = 0
    /\ pc = IF 0 < horizon_months(cfg) THEN "begin" ELSE "done"
    /\ idx = 1
    /\ loc = NoLocals
    /\ df = Null
    /\ freq = Null
    /\ out1 = Null
    /\ out2 = Null
    /\ ExtIdle

\* simulator.py:67-89: loop head, income totals, activation
BeginMonth ==
    /\ pc = "begin"
    /\ m < n_months
    /\ loc' = [NoLocals EXCEPT
                 !.total_income = _sum_cashflow(income_states, m),
                 !.taxable_income = taxable_income_of(income_states, m)]
    /\ account_states' = activate(account_states, m)
    /\ pc' = "tax"
    /\ UNCHANGED <<cfg, n_months, income_states, spending_states, primary_cash,
                   cash_buffer, records, m, idx>>
    /\ UNCHANGED aggVars
    /\ UNCHANGED extVars

\* simulator.py:91-101
ComputeTax ==
    /\ pc = "tax"
    /\ LET growth == taxable_investment_growth_of(account_states, m)
           base   == RAdd(loc.taxable_income, growth)
           tax    == RMul(base, cfg.tax_rate)
       IN  loc' = [loc EXCEPT
                     !.taxable_investment_growth = growth,
                     !.taxable_base = base,
                     !.tax_amount = tax,
                     !.net_cashflow = net_cashflow_of(loc.total_income, Zero, tax)]
    /\ pc' = "cash"
    /\ UNCHANGED <<cfg, n_months, account_states, income_states, spending_states,
                   primary_cash, cash_buffer, records, m, idx>>
    /\ UNCHANGED aggVars
    /\ UNCHANGED extVars

\* simulator.py:103-108
ApplyCash ==
    /\ pc = "cash"
    /\ LET r == apply_cash(account_states, primary_cash, cash_buffer, loc.net_cashflow)
       IN  /\ account_states' = r[1]
           /\ cash_buffer' = r[2]
    /\ pc' = "growth"
    /\ UNCHANGED <<cfg, n_months, income_states, spending_states, primary_cash,
                   records, m, idx, loc>>
    /\ UNCHANGED aggVars
    /\ UNCHANGED extVars

\* simulator.py:110-114
ApplyGrowth ==
    /\ pc = "growth"
    /\ account_states' = apply_growth(account_states, m)
    /\ pc' = "end"
    /\ idx' = 1
    /\ UNCHANGED <<cfg, n_months, income_states, spending_states, primary_cash,
                   cash_buffer, records, m, loc>>
    /\ UNCHANGED aggVars
    /\ UNCHANGED extVars

\* simulator.py:116-129: one iteration of the end-action loop
EndAction ==
    /\ pc = "end"
    /\ account_states' = end_action(account_states, primary_cash, idx, m)
    /\ IF idx < Len(account_states)
       THEN idx' = idx + 1 /\ pc' = "end"
       ELSE idx' = 1 /\ pc' = "emit"
    /\ UNCHANGED <<cfg, n_months, income_states, spending_states, primary_cash,
                   cash_buffer, records, m, loc>>
    /\ UNCHANGED aggVars
    /\ UNCHANGED extVars

\* simulator.py:131-171: spending total, snapshot, next month
EmitSnapshot ==
    /\ pc = "emit"
    /\ records' = Append(records,
                         snapshot_of(cfg, m, loc, total_spending_of(spending_states, m),
                                     account_states))
    /\ m' = m + 1
    /\ pc' = IF m + 1 < n_months THEN "begin" ELSE "done"
    /\ UNCHANGED <<cfg, n_months, account_states, income_states, spending_states,
                   primary_cash, cash_buffer, idx, loc>>
    /\ UNCHANGED aggVars
    /\ UNCHANGED extVars

Next ==
    \/ BeginMonth
    \/ ComputeTax
    \/ ApplyCash
    \/ ApplyGrowth
    \/ EndAction
    \/ EmitSnapshot

Spec == Init /\ [][Next]_vars

-----------------------------------------------------------------------------
(* aggregate.py *)

\* a DataFrame: its columns and its rows in order; a row maps each column to a cell
DataFrame(columns, rows) == [columns |-> columns, rows |-> rows]

\* the exception _prepare raises, as the outcome of a call
KeyError == [columns |-> {"KeyError"}, rows |-> <<>>]

\* aggregate.py:3
REQUIRED_COLUMNS == {"Scenario", "MonthIndex", "CalendarYear", "MonthInYear"}

\* the columns whose cells can be null (NaN / None)
NullableColumns ==
    {"Month", "NetWorth", "Period", "Savings", "TotalIncome", "TotalSpending",
     "TaxableIncome", "TaxableInvestmentGrowth", "TaxableBase", "TotalTax",
     "NetCashflow", "Liquid", "C", "I", "Cash Reserve"}

isna(c, v) == c \in NullableColumns /\ v = Null

\* lexicographic order of the scenario names in use
ScenarioRank(name) == CASE name = "A" -> 1 [] name = "B" -> 2 [] name = "C" -> 3

\* a slip: rows ordered by MonthIndex alone
sort_key_month_only(a, b) == a.MonthIndex < b.MonthIndex

\* order of sort_values(["Scenario", "MonthIndex"]), aggregate.py:10
sort_key_less(a, b) ==
    \/ ScenarioRank(a.Scenario) < ScenarioRank(b.Scenario)
    \/ a.Scenario = b.Scenario /\ a.MonthIndex < b.MonthIndex

\* insert r after every row that does not come after it (the sort is stable)
RECURSIVE insert_sorted(_, _)
insert_sorted(s, r) ==
    IF s = <<>> THEN <<r>>
    ELSE IF sort_key_less(r, Head(s)) THEN <<r>> \o s
    ELSE <<Head(s)>> \o insert_sorted(Tail(s), r)

RECURSIVE sort_values(_)
sort_values(rows) ==
    IF rows = <<>> THEN <<>>
    ELSE insert_sorted(sort_values(SubSeq(rows, 1, Len(rows) - 1)), rows[Len(rows)])

\* aggregate.py:6-10
_prepare(d) ==
    IF REQUIRED_COLUMNS \ d.columns # {} THEN KeyError
    ELSE DataFrame(d.columns, sort_values(d.rows))

\* a slip: only a table without columns counts as empty
empty_without_columns(d) == d.columns = {}

\* df.empty
empty(d) == d.columns = {} \/ d.rows = <<>>

UpperChar(c) ==
    CASE c = "m" -> "M" [] c = "q" -> "Q" [] c = "y" -> "Y" [] c = "w" -> "W"
      [] OTHER -> c

\* str.upper()
Upper(s) == [k \in 1..Len(s) |-> UpperChar(s[k])]

\* a slip: the selector is compared as given
normalize_freq_as_given(f) == IF f = <<>> THEN <<"M">> ELSE f

\* (freq or "M").upper(), aggregate.py:18
normalize_freq(f) == Upper(IF f = <<>> THEN <<"M">> ELSE f)

\* df[name] = series: one cell per row, in row order
assign(d, name, series) ==
    DataFrame(d.columns \cup {name},
              [k \in 1..Len(d.rows) |->
                  [c \in d.columns \cup {name} |->
                      IF c = name THEN series[k] ELSE d.rows[k][c]]])

\* a slip: the bucket number is also written over MonthIndex
assign_period_value_over_month(d, width) ==
    LET bucket == [k \in 1..Len(d.rows) |-> d.rows[k].MonthIndex \div width]
    IN  assign(assign(d, "PeriodValue", bucket), "MonthIndex", bucket)

\* df["PeriodValue"] = df["MonthIndex"] // width, aggregate.py:22 and 28
assign_period_value(d, width) ==
    assign(d, "PeriodValue", [k \in 1..Len(d.rows) |-> d.rows[k].MonthIndex \div width])

\* df["PeriodValue"] = df["MonthIndex"], aggregate.py:32
assign_month_index(d) ==
    assign(d, "PeriodValue", [k \in 1..Len(d.rows) |-> d.rows[k].MonthIndex])

\* aggregate.py:23-24: "<year> Q<quarter>"
quarter_label(r) == <<r.CalendarYear, "Q", ((r.MonthInYear - 1) \div 3) + 1>>

\* aggregate.py:29: str(year)
year_label(r) == <<r.CalendarYear>>

\* aggregate.py:33: df.get("Month", df["MonthIndex"].astype(str))
month_label(d, r) == IF "Month" \in d.columns THEN r.Month ELSE <<r.MonthIndex>>

\* the group keys in sorted order
RECURSIVE sorted_keys(_)
sorted_keys(keys) ==
    IF keys = {} THEN <<>>
    ELSE LET lo == CHOOSE a \in keys : \A b \in keys :
                       \/ ScenarioRank(a[1]) < ScenarioRank(b[1])
                       \/ a[1] = b[1] /\ a[2] <= b[2]
         IN  <<lo>> \o sorted_keys(keys \ {lo})

\* GroupBy.last() for one column: the last cell of the group that is not null
RECURSIVE last_valid(_, _, _)
last_valid(rows, key, c) ==
    IF rows = <<>> THEN Null
    ELSE LET r == rows[Len(rows)]
         IN  IF <<r.Scenario, r.PeriodValue>> = key /\ ~isna(c, r[c])
             THEN r[c]
             ELSE last_valid(SubSeq(rows, 1, Len(rows) - 1), key, c)

\* df.groupby(["Scenario", "PeriodValue"], as_index=False).last(), aggregate.py:25 and 30
groupby_last(d) ==
    LET keys == sorted_keys({<<d.rows[k].Scenario, d.rows[k].PeriodValue>> :
                                k \in 1..Len(d.rows)})
    IN  DataFrame(d.columns,
                  [g \in 1..Len(keys) |->
                      [c \in d.columns |->
                          IF c = "Scenario" THEN keys[g][1]
                          ELSE IF c = "PeriodValue" THEN keys[g][2]
                          ELSE last_valid(d.rows, keys[g], c)]])

\* a slip: the missing-columns error is swallowed and the input returned
aggregate_period_swallowing(d, f) ==
    IF empty(d) THEN d
    ELSE LET fq == normalize_freq(f)
             p  == _prepare(d)
         IN  IF p = KeyError THEN d
             ELSE IF fq = <<"Q">>
             THEN LET v == assign_period_value(p, 3)
                  IN  groupby_last(assign(v, "Period",
                          [k \in 1..Len(v.rows) |-> quarter_label(v.rows[k])]))
             ELSE IF fq = <<"Y">>
             THEN LET v == assign_period_value(p, 12)
                  IN  groupby_last(assign(v, "Period",
                          [k \in 1..Len(v.rows) |-> year_label(v.rows[k])]))
             ELSE LET v == assign_month_index(p)
                  IN  assign(v, "Period",
                          [k \in 1..Len(v.rows) |-> month_label(v, v.rows[k])])

\* aggregate.py:13-34
aggregate_period(d, f) ==
    IF empty(d) THEN d
    ELSE LET fq == normalize_freq(f)
             p  == _prepare(d)
         IN  IF p = KeyError THEN KeyError
             ELSE IF fq = <<"Q">>
             THEN LET v == assign_period_value(p, 3)
                  IN  groupby_last(assign(v, "Period",
                          [k \in 1..Len(v.rows) |-> quarter_label(v.rows[k])]))
             ELSE IF fq = <<"Y">>
             THEN LET v == assign_period_value(p, 12)
                  IN  groupby_last(assign(v, "Period",
                          [k \in 1..Len(v.rows) |-> year_label(v.rows[k])]))
             ELSE LET v == assign_month_index(p)
                  IN  assign(v, "Period",
                          [k \in 1..Len(v.rows) |-> month_label(v, v.rows[k])])

-----------------------------------------------------------------------------
(* The tables aggregate_period is run on *)

ScenarioNames == {"A", "B", "C"}

\* the columns of a monthly table: the simulator's, with one value column
MonthlyColumns == {"Scenario", "MonthIndex", "Month", "CalendarYear", "MonthInYear", "NetWorth"}

\* the monthly rows of one scenario, months 0..n-1 in order, as simulate_monthly
\* emits them; the value is null in the months of nulls
monthly_rows(name, n, nulls, columns) ==
    [k \in 1..n |->
        LET full == [Scenario |-> name,
                     MonthIndex |-> k - 1,
                     Month |-> <<2024 + ((k - 1) \div 12), ((k - 1) % 12) + 1>>,
                     CalendarYear |-> 2024 + ((k - 1) \div 12),
                     MonthInYear |-> ((k - 1) % 12) + 1,
                     NetWorth |-> IF (k - 1) \in nulls THEN Null
                                  ELSE FromInt(100 * ScenarioRank(name) + k - 1)]
        IN  [c \in columns |-> full[c]]]

MonthCounts == {1, 6, MaxAggMonths}

\* the months whose value is null: none; the last one; every one (a column
\* this scenario does not have, which pd.concat fills with NaN)
NullMonths(n) ==
    {{}} \cup (IF n > 1 THEN {{n - 1}} ELSE {}) \cup (IF n = 6 THEN {0..(n - 1)} ELSE {})

ScenarioTables(name, columns) ==
    UNION { {monthly_rows(name, n, nulls, columns) : nulls \in NullMonths(n)} :
            n \in MonthCounts }

\* the stored scenarios in insertion order: distinct names
ScenarioOrders ==
    UNION { {o \in [1..k -> ScenarioNames] : \A a, b \in 1..k : a # b => o[a] # o[b]} :
            k \in 0..MaxScenarios }

\* the rows of pd.concat over the scenarios of o, in that order
RECURSIVE concat_rows(_, _)
concat_rows(o, columns) ==
    IF o = <<>> THEN {<<>>}
    ELSE { first \o rest : first \in ScenarioTables(Head(o), columns),
                           rest \in concat_rows(Tail(o), columns) }

\* ScenarioState.get_all_monthly, state.py:29-32
TablesOver(columns) ==
    UNION { { DataFrame(IF o = <<>> THEN {} ELSE columns, rows) :
                rows \in concat_rows(o, columns) } : o \in ScenarioOrders }

ColumnSets ==
    {MonthlyColumns, MonthlyColumns \ {"Month"}, MonthlyColumns \ {"CalendarYear"}}

\* the rows of pd.concat over the scenarios of o, no value missing
RECURSIVE plain_rows(_, _)
plain_rows(o, columns) ==
    IF o = <<>> THEN {<<>>}
    ELSE { first \o rest :
              first \in {monthly_rows(Head(o), n, {}, columns) : n \in MonthCounts},
              rest \in plain_rows(Tail(o), columns) }

\* tables with rows that lack one required column, or all of them
TablesLackingRequired ==
    UNION { UNION { { DataFrame(columns, rows) : rows \in plain_rows(o, columns) } :
                    o \in ScenarioOrders \ {<<>>} } :
            columns \in {MonthlyColumns \ {"Scenario"}, MonthlyColumns \ {"MonthIndex"},
                         MonthlyColumns \ {"MonthInYear"}, {"NetWorth"}} }

\* tables that are empty: no rows under several sets of columns, and rows
\* without any column
EmptyTables ==
    { DataFrame(columns, <<>>) : columns \in {{}, MonthlyColumns, {"NetWorth"}} }
    \cup { DataFrame({}, <<Null, Null>>) }

Tables == UNION {TablesOver(c) : c \in ColumnSets} \cup TablesLackingRequired \cup EmptyTables

Freqs == {<<"M">>, <<"Q">>, <<"Y">>, <<"q">>, <<"y">>, <<>>, <<"W">>}

-----------------------------------------------------------------------------
(* aggregate_period called on a table, and again on its result *)

AggInit ==
    /\ df \in Tables
    /\ freq \in Freqs
    /\ out1 = Null
    /\ out2 = Null
    /\ pc = "call"
    /\ cfg = Null
    /\ n_months = 0
    /\ account_states = <<>>
    /\ income_states = <<>>
    /\ spending_states = <<>>
    /\ primary_cash = 0
    /\ cash_buffer = Zero
    /\ records = <<>>
    /\ m = 0
    /\ idx = 0
    /\ loc = NoLocals
    /\ ExtIdle

\* out1 = aggregate_period(df, freq)
Aggregate ==
    /\ pc = "call"
    /\ out1' = aggregate_period(df, freq)
    /\ pc' = IF aggregate_period(df, freq) = KeyError THEN "raised" ELSE "again"
    /\ UNCHANGED <<df, freq, out2>>
    /\ UNCHANGED <<cfg, n_months, account_states, income_states, spending_states,
                   primary_cash, cash_buffer, records, m, idx, loc>>
    /\ UNCHANGED extVars

\* out2 = aggregate_period(out1, freq)
Reaggregate ==
    /\ pc = "again"
    /\ out2' = aggregate_period(out1, freq)
    /\ pc' = IF aggregate_period(out1, freq) = KeyError THEN "raised" ELSE "returned"
    /\ UNCHANGED <<df, freq, out1>>
    /\ UNCHANGED <<cfg, n_months, account_states, income_states, spending_states,
                   primary_cash, cash_buffer, records, m, idx, loc>>
    /\ UNCHANGED extVars

AggNext == Aggregate \/ Reaggregate

AggSpec == AggInit /\ [][AggNext]_vars

-----------------------------------------------------------------------------
(* simulate_monthly called twice on the same plan *)

\* a slip: the synthesized cash account is inserted into the plan's own list
setup_in_place(plan) ==
    LET n == horizon_months(plan)
        built == [k \in 1..Len(plan.accounts) |-> _build_account_state(plan.accounts[k], n)]
    IN  [cfg |-> IF cash_states(built) # {} THEN plan
                 ELSE [plan EXCEPT !.accounts = <<virtual_cash>> \o @],
         n_months |-> n,
         account_states |-> _ensure_primary_cash_states(built, n),
         primary_cash |-> _ensure_primary_cash(built, n),
         income_states |->
            [k \in 1..Len(plan.incomes) |-> _build_cashflow_state(plan.incomes[k], n)],
         spending_states |->
            [k \in 1..Len(plan.spendings) |-> _build_cashflow_state(plan.spendings[k], n)],
         records |-> <<>>,
         cash_buffer |-> Zero]

\* simulator.py:56-65: the locals the call creates, and the plan after it; the
\* three state lists are new lists, the plan's lists are only read
setup(plan) ==
    LET n == horizon_months(plan)
        built == [k \in 1..Len(plan.accounts) |-> _build_account_state(plan.accounts[k], n)]
    IN  [cfg |-> plan,
         n_months |-> n,
         account_states |-> _ensure_primary_cash_states(built, n),
         primary_cash |-> _ensure_primary_cash(built, n),
         income_states |->
            [k \in 1..Len(plan.incomes) |-> _build_cashflow_state(plan.incomes[k], n)],
         spending_states |->
            [k \in 1..Len(plan.spendings) |-> _build_cashflow_state(plan.spendings[k], n)],
         records |-> <<>>,
         cash_buffer |-> Zero]

\* the plans the two calls are made on
RunPlans == {plan \in Plans : plan.tax_rate # Zero}

\* the caller holds a plan; no call has been made
RunsInit ==
    /\ cfg \in RunPlans
    /\ plan_given = cfg
    /\ first_run = Null
    /\ pc = "call"
    /\ n_months = 0
    /\ account_states = <<>>
    /\ income_states = <<>>
    /\ spending_states = <<>>
    /\ primary_cash = 0
    /\ cash_buffer = Zero
    /\ records = <<>>
    /\ m = 0
    /\ idx = 0
    /\ loc = NoLocals
    /\ AggIdle
    /\ RestIdle
    /\ StoreIdle
    /\ PlanIdle
    /\ CatIdle

\* simulator.py:55-67: the call binds its locals, whatever an earlier call left
Call ==
    /\ pc = "call"
    /\ LET w == setup(cfg)
       IN  /\ cfg' = w.cfg
           /\ n_months' = w.n_months
           /\ account_states' = w.account_states
           /\ primary_cash' = w.primary_cash
           /\ income_states' = w.income_states
           /\ spending_states' = w.spending_states
           /\ records' = w.records
           /\ cash_buffer' = w.cash_buffer
           /\ pc' = IF 0 < w.n_months THEN "begin" ELSE "done"
    /\ m' = 0
    /\ idx' = 1
    /\ loc' = NoLocals
    /\ UNCHANGED <<aggVars, storeVars, runVars, planVars, catVars, restVars>>

\* simulator.py:173: the first call returns its records; the caller calls again
ReturnFirst ==
    /\ pc = "done"
    /\ first_run = Null
    /\ first_run' = records
    /\ pc' = "call"
    /\ UNCHANGED <<simVarsButPc, plan_given>>
    /\ UNCHANGED <<aggVars, storeVars, planVars, catVars, restVars>>

RunsNext ==
    \/ Call
    \/ ReturnFirst
    \/ BeginMonth
    \/ ComputeTax
    \/ ApplyCash
    \/ ApplyGrowth
    \/ EndAction
    \/ EmitSnapshot

RunsSpec == RunsInit /\ [][RunsNext]_vars

-----------------------------------------------------------------------------
(* engine/state.py and engine/storage.py: the scenario store *)

\* a Python dict in insertion order: a sequence of <<key, value>> pairs
dict_keys(d) == [k \in 1..Len(d) |-> d[k][1]]

dict_values(d) == [k \in 1..Len(d) |-> d[k][2]]

has_key(d, key) == \E k \in 1..Len(d) : d[k][1] = key

\* d[key] = value: an existing key keeps its place, a new key goes last
dict_set(d, key, value) ==
    IF has_key(d, key)
    THEN [k \in 1..Len(d) |-> IF d[k][1] = key THEN <<key, value>> ELSE d[k]]
    ELSE Append(d, <<key, value>>)

\* the floats that are not finite, written as fractions over zero
nan == <<0, 0>>

inf == <<1, 0>>

neg_inf == <<-1, 0>>

\* df.to_dict(orient="records"): one dict per row; a missing cell is the float nan
to_dict_records(d) ==
    [k \in 1..Len(d.rows) |->
        [c \in d.columns |-> IF isna(c, d.rows[k][c]) THEN nan ELSE d.rows[k][c]]]

\* pd.DataFrame(records): the columns are the keys of the records, nan is a
\* missing cell; no record gives a table without columns
from_records(recs) ==
    LET columns == UNION {DOMAIN recs[k] : k \in 1..Len(recs)}
    IN  DataFrame(columns,
                  [k \in 1..Len(recs) |->
                      [c \in columns |->
                          IF c \notin DOMAIN recs[k] THEN Null
                          ELSE IF c \in NullableColumns /\ recs[k][c] = nan THEN Null
                          ELSE recs[k][c]]])

\* storage.py:27-33: every table as records; json.dump writes nan and the
\* infinities as NaN, Infinity and -Infinity
save_scenarios(scenario_dict) ==
    [k \in 1..Len(scenario_dict) |->
        <<scenario_dict[k][1], to_dict_records(scenario_dict[k][2])>>]

\* storage.py:36-50; a missing file (Null) gives {}
load_scenarios(file) ==
    IF file = Null THEN <<>>
    ELSE [k \in 1..Len(file) |-> <<file[k][1], from_records(file[k][2])>>]

\* a slip: every table is kept, one entry per call
add_scenario_appending(store, name, table) == Append(store, <<name, table>>)

\* state.py:18-19
add_scenario(store, name, table) == dict_set(store, name, table)

\* state.py:22-23
clear(store) == <<>>

\* the rows of pd.concat(tables, ignore_index=True) over the given columns:
\* a column a table lacks is filled with missing cells
RECURSIVE concat_over(_, _)
concat_over(tables, columns) ==
    IF tables = <<>> THEN <<>>
    ELSE LET t == Head(tables)
         IN  [k \in 1..Len(t.rows) |->
                 [c \in columns |-> IF c \in t.columns THEN t.rows[k][c] ELSE Null]]
             \o concat_over(Tail(tables), columns)

\* pd.concat(tables, ignore_index=True)
concat(tables) ==
    LET columns == UNION {tables[k].columns : k \in 1..Len(tables)}
    IN  DataFrame(columns, concat_over(tables, columns))

\* state.py:29-32
get_all_monthly(store) ==
    IF store = <<>> THEN DataFrame({}, <<>>) ELSE concat(dict_values(store))

\* state.py:34-35
list_names(store) == dict_keys(store)

-----------------------------------------------------------------------------
(* backend.py: the aggregated payload of the stored scenarios *)

\* a slip: math.isnan in place of "not math.isfinite"
_is_nan_only(c, value) == c \in NullableColumns /\ value = nan

\* backend.py:118-122 for the value under key c: math.isfinite is false of nan
\* and the infinities, true of the integers of the other columns, and raises
\* TypeError for their strings, which gives False
_is_nan(c, value) == c \in NullableColumns /\ value \in {nan, inf, neg_inf}

\* backend.py:125-129
_sanitize_records(recs) ==
    [k \in 1..Len(recs) |->
        [c \in DOMAIN recs[k] |-> IF _is_nan(c, recs[k][c]) THEN Null ELSE recs[k][c]]]

\* a request that carries no freq argument
NoArg == <<"none">>

\* backend.py:160-171, reading the store it is given; the KeyError of
\* aggregate_period is not caught
_aggregated_payload(store, f) ==
    LET fq == Upper(IF f = <<>> THEN <<"Q">> ELSE f)
        monthly_all == get_all_monthly(store)
    IN  IF empty(monthly_all)
        THEN [scenarios |-> list_names(store), data |-> <<>>, freq |-> fq]
        ELSE LET agg_df == aggregate_period(monthly_all, fq)
             IN  IF agg_df = KeyError THEN KeyError
                 ELSE [scenarios |-> list_names(store),
                       freq |-> fq,
                       data |-> _sanitize_records(to_dict_records(agg_df))]

\* backend.py:367-370: request.args.get("freq", "Q")
list_scenarios(store, arg) ==
    _aggregated_payload(store, IF arg = NoArg THEN <<"Q">> ELSE arg)

-----------------------------------------------------------------------------
(* The scenarios the store is given *)

\* largest number of store operations in one session
MaxOps == 3

StoreNames == {"A", "B"}

\* the monthly rows of a simulated scenario: months 0..n-1; NetWorth overflows
\* to the infinities in the months of infs; Savings is an account of its own
scenario_rows(name, n, infs, columns) ==
    [k \in 1..n |->
        LET full == [Scenario |-> name,
                     MonthIndex |-> k - 1,
                     Month |-> <<2024 + ((k - 1) \div 12), ((k - 1) % 12) + 1>>,
                     CalendarYear |-> 2024 + ((k - 1) \div 12),
                     MonthInYear |-> ((k - 1) % 12) + 1,
                     NetWorth |-> IF (k - 1) \in infs
                                  THEN (IF (k - 1) % 2 = 1 THEN inf ELSE neg_inf)
                                  ELSE FromInt(100 * ScenarioRank(name) + k - 1),
                     Savings |-> FromInt(10 * (k - 1))]
        IN  [c \in columns |-> full[c]]]

\* a one-month run; a four-month run whose NetWorth overflows in months 2 and 3;
\* a four-month run with an account column the others lack
StoredTables(name) ==
    { DataFrame(MonthlyColumns, scenario_rows(name, 1, {}, MonthlyColumns)),
      DataFrame(MonthlyColumns, scenario_rows(name, 4, {2, 3}, MonthlyColumns)),
      DataFrame(MonthlyColumns \cup {"Savings"},
                scenario_rows(name, 4, {}, MonthlyColumns \cup {"Savings"})) }

\* what an earlier session left in the scenarios file: nothing, or one scenario
EarlierSessions ==
    {<<>>} \cup {<<<<"add", "A", t>>>> : t \in StoredTables("A")}

\* the store after the operations of h
RECURSIVE replay(_)
replay(h) ==
    IF h = <<>> THEN <<>>
    ELSE LET op == h[Len(h)]
             before == replay(SubSeq(h, 1, Len(h) - 1))
         IN  IF op[1] = "clear" THEN clear(before)
             ELSE add_scenario(before, op[2], op[3])

-----------------------------------------------------------------------------
(* The scenario store in use: ScenarioState() and calls of its methods *)

\* state.py:14-16, on the file an earlier session saved
ApiInit ==
    /\ history \in EarlierSessions
    /\ scenarios_file = IF history = <<>> THEN Null ELSE save_scenarios(replay(history))
    /\ scenarios = load_scenarios(scenarios_file)
    /\ response = Null
    /\ pc = "serve"
    /\ SimIdle
    /\ AggIdle
    /\ RestIdle
    /\ RunIdle
    /\ PlanIdle
    /\ CatIdle

\* state.py:18-20
AddScenario ==
    /\ pc = "serve"
    /\ Len(history) < MaxOps
    /\ \E name \in StoreNames : \E table \in StoredTables(name) :
          /\ scenarios' = add_scenario(scenarios, name, table)
          /\ scenarios_file' = save_scenarios(add_scenario(scenarios, name, table))
          /\ history' = Append(history, <<"add", name, table>>)
    /\ response' = Null
    /\ UNCHANGED <<pc, simVarsButPc, aggVars, runVars, planVars, catVars, restVars>>

\* state.py:22-24
Clear ==
    /\ pc = "serve"
    /\ Len(history) < MaxOps
    /\ scenarios' = clear(scenarios)
    /\ scenarios_file' = save_scenarios(clear(scenarios))
    /\ history' = Append(history, <<"clear">>)
    /\ response' = Null
    /\ UNCHANGED <<pc, simVarsButPc, aggVars, runVars, planVars, catVars, restVars>>

\* state.py:29-32
GetAllMonthly ==
    /\ pc = "serve"
    /\ response' = [call |-> "get_all_monthly", value |-> get_all_monthly(scenarios)]
    /\ UNCHANGED <<scenarios, scenarios_file, history>>
    /\ UNCHANGED <<pc, simVarsButPc, aggVars, runVars, planVars, catVars, restVars>>

\* aggregate_period(state.get_all_monthly(), freq=f), aggregate.py:13
AggregateStored ==
    /\ pc = "serve"
    /\ \E f \in Freqs :
          response' = [call |-> "aggregate_period", arg |-> f,
                       value |-> aggregate_period(get_all_monthly(scenarios), f)]
    /\ UNCHANGED <<scenarios, scenarios_file, history>>
    /\ UNCHANGED <<pc, simVarsButPc, aggVars, runVars, planVars, catVars, restVars>>

\* GET /api/scenarios with or without a freq argument, backend.py:367-370
ListScenarios ==
    /\ pc = "serve"
    /\ \E f \in Freqs \cup {NoArg} :
          response' = [call |-> "list_scenarios", arg |-> f,
                       value |-> list_scenarios(scenarios, f)]
    /\ UNCHANGED <<scenarios, scenarios_file, history>>
    /\ UNCHANGED <<pc, simVarsButPc, aggVars, runVars, planVars, catVars, restVars>>

ApiNext ==
    \/ AddScenario
    \/ Clear
    \/ GetAllMonthly
    \/ AggregateStored
    \/ ListScenarios

ApiSpec == ApiInit /\ [][ApiNext]_vars

-----------------------------------------------------------------------------
(* engine/storage.py and engine/state.py: the saved plans *)

\* Python values as JSON knows them, each with its type
PyFloat(x) == [type |-> "float", v |-> x]

\* an int, its value written as a fraction
PyInt(i) == [type |-> "int", v |-> Rat(i, 1)]

PyStr(str) == [type |-> "str", v |-> str]

PyNone == [type |-> "NoneType", v |-> Zero]

PyList(items) == [type |-> "list", v |-> items]

\* a dict: <<key, value>> pairs in insertion order, the keys being strings
PyDict(pairs) == [type |-> "dict", v |-> pairs]

\* a slip: only the floats directly inside the outermost container are replaced
RECURSIVE _sanitize_shallow(_, _)
_sanitize_shallow(value, depth) ==
    IF value.type = "float"
    THEN IF value.v = nan \/ value.v \in {inf, neg_inf} THEN PyNone ELSE value
    ELSE IF depth = 0 THEN value
    ELSE IF value.type = "dict"
    THEN PyDict([k \in 1..Len(value.v) |->
                    <<value.v[k][1], _sanitize_shallow(value.v[k][2], depth - 1)>>])
    ELSE IF value.type = "list"
    THEN PyList([k \in 1..Len(value.v) |-> _sanitize_shallow(value.v[k], depth - 1)])
    ELSE value

_sanitize_two_levels(value) == _sanitize_shallow(value, 2)

\* storage.py:15-24
RECURSIVE _sanitize_json_compat(_)
_sanitize_json_compat(value) ==
    IF value.type = "float"
    THEN IF value.v = nan \/ value.v \in {inf, neg_inf} THEN PyNone ELSE value
    ELSE IF value.type = "dict"
    THEN PyDict([k \in 1..Len(value.v) |->
                    <<value.v[k][1], _sanitize_json_compat(value.v[k][2])>>])
    ELSE IF value.type = "list"
    THEN PyList([k \in 1..Len(value.v) |-> _sanitize_json_compat(value.v[k])])
    ELSE value

\* the exception json.dump raises with allow_nan=False
ValueError == [json |-> "ValueError", v |-> 0]

\* json.dump(value, f, allow_nan=False): the JSON document written, or
\* ValueError for a float that is not finite, at any depth
RECURSIVE json_dump(_)
json_dump(value) ==
    IF value.type = "float"
    THEN IF value.v \in {nan, inf, neg_inf} THEN ValueError
         ELSE [json |-> "number", v |-> value]
    ELSE IF value.type = "int" THEN [json |-> "number", v |-> value]
    ELSE IF value.type = "str" THEN [json |-> "string", v |-> value.v]
    ELSE IF value.type = "NoneType" THEN [json |-> "null", v |-> 0]
    ELSE IF value.type = "list"
    THEN LET items == [k \in 1..Len(value.v) |-> json_dump(value.v[k])]
         IN  IF \E k \in 1..Len(items) : items[k].json = "ValueError" THEN ValueError
             ELSE [json |-> "array", v |-> items]
    ELSE LET members == [k \in 1..Len(value.v) |->
                            <<value.v[k][1], json_dump(value.v[k][2])>>]
         IN  IF \E k \in 1..Len(members) : members[k][2].json = "ValueError" THEN ValueError
             ELSE [json |-> "object", v |-> members]

\* json.load / json.loads of a document
RECURSIVE json_load(_)
json_load(doc) ==
    IF doc.json = "number" THEN doc.v
    ELSE IF doc.json = "string" THEN PyStr(doc.v)
    ELSE IF doc.json = "null" THEN PyNone
    ELSE IF doc.json = "array"
    THEN PyList([k \in 1..Len(doc.v) |-> json_load(doc.v[k])])
    ELSE PyDict([k \in 1..Len(doc.v) |-> <<doc.v[k][1], json_load(doc.v[k][2])>>])

\* storage.py:67-73: the file after the call; when json.dump raises, the
\* exception leaves before os.replace and the file stays as it was
save_plans(file, plan_dict) ==
    LET clean == _sanitize_json_compat(PyDict(plan_dict))
    IN  IF json_dump(clean).json = "ValueError" THEN file ELSE json_dump(clean)

\* storage.py:53-64; a missing file (Null) gives {}
load_plans(file) ==
    IF file = Null THEN <<>> ELSE _sanitize_json_compat(json_load(file)).v

\* del d[key]
dict_del(d, key) ==
    LET keep == {k \in 1..Len(d) : d[k][1] # key}
        RECURSIVE pick(_)
        pick(k) == IF k > Len(d) THEN <<>>
                   ELSE IF k \in keep THEN <<d[k]>> \o pick(k + 1) ELSE pick(k + 1)
    IN  pick(1)

-----------------------------------------------------------------------------
(* The plans that are saved *)

PlanNames == {"P", "Q"}

\* the numbers a field of a plan may hold
Numbers == {PyInt(1000), PyFloat(Rat(5, 2)), PyFloat(nan), PyFloat(inf), PyFloat(neg_inf)}

\* plan payloads as the request's JSON gives them: a number at the top level,
\* one inside a dict of a list, one inside a list of a list
Payloads ==
    { PyDict(<< <<"name", PyStr("plan")>>,
                <<"taxRate", a>>,
                <<"accounts", PyList(<<PyDict(<< <<"principal", b>>,
                                                 <<"category", PyStr("cash")>> >>)>>)>>,
                <<"layout", PyList(<<PyList(<<PyInt(1), c>>), PyNone>>)>> >>) :
        a \in {PyFloat(Rat(25, 1)), PyFloat(nan)},
        b \in Numbers,
        c \in {PyInt(2), PyFloat(inf)} }

\* what an earlier session left in the plans file: no file, or one saved plan
EarlierPlans ==
    {<<>>} \cup { << <<"P", payload>> >> :
                    payload \in {q \in Payloads : q.v[2][2].v = nan} }

-----------------------------------------------------------------------------
(* PlanState in use *)

\* state.py:39-41, on the file an earlier session saved
PlanInit ==
    /\ \E earlier \in EarlierPlans :
          /\ plans_file = IF earlier = <<>> THEN Null ELSE save_plans(Null, earlier)
          /\ plans = load_plans(IF earlier = <<>> THEN Null ELSE save_plans(Null, earlier))
    /\ pc = "serve"
    /\ SimIdle
    /\ AggIdle
    /\ RestIdle
    /\ StoreIdle
    /\ RunIdle
    /\ CatIdle

\* PlanState.save, state.py:49-51
SavePlan ==
    /\ pc = "serve"
    /\ \E name \in PlanNames : \E payload \in Payloads :
          /\ plans' = dict_set(plans, name, payload)
          /\ plans_file' = save_plans(plans_file, dict_set(plans, name, payload))
    /\ UNCHANGED <<pc, simVarsButPc, aggVars, storeVars, runVars, catVars, restVars>>

\* PlanState.delete, state.py:53-56
DeletePlan ==
    /\ pc = "serve"
    /\ \E name \in PlanNames :
          IF has_key(plans, name)
          THEN /\ plans' = dict_del(plans, name)
               /\ plans_file' = save_plans(plans_file, dict_del(plans, name))
          ELSE UNCHANGED <<plans, plans_file>>
    /\ UNCHANGED <<pc, simVarsButPc, aggVars, storeVars, runVars, catVars, restVars>>

PlanNext == SavePlan \/ DeletePlan

PlanSpec == PlanInit /\ [][PlanNext]_vars

-----------------------------------------------------------------------------
(* statements/categorizer.py *)

\* x >= y
RGe(x, y) == ~RIsNeg(RSub(x, y))

\* str.strip() for blanks
RECURSIVE lstrip(_)
lstrip(str) == IF str # <<>> /\ Head(str) = " " THEN lstrip(Tail(str)) ELSE str

RECURSIVE rstrip(_)
rstrip(str) ==
    IF str # <<>> /\ str[Len(str)] = " " THEN rstrip(SubSeq(str, 1, Len(str) - 1)) ELSE str

\* re.sub(r"\s+", " ", str)
RECURSIVE collapse(_)
collapse(str) ==
    IF str = <<>> THEN <<>>
    ELSE IF Head(str) = " " THEN <<" ">> \o collapse(lstrip(Tail(str)))
    ELSE <<Head(str)>> \o collapse(Tail(str))

\* categorizer.py:83-85; None is the empty string
_normalize(text) == collapse(Lower(rstrip(lstrip(text))))

\* categorizer.py:88-94
CategorizationResult(category, confidence, source, merchant) ==
    [category |-> category, confidence |-> confidence, source |-> source,
     merchant |-> merchant, notes |-> Null]

\* categorizer.py:120-129
_score_keywords(text, keywords) ==
    LET hits == Cardinality({k \in 1..Len(keywords) :
                                /\ _normalize(keywords[k]) # <<>>
                                /\ Contains(text, _normalize(keywords[k]))})
    IN  IF hits = 0 THEN Zero
        ELSE IF RGe(RAdd(Rat(2, 5), RMul(Rat(1, 5), FromInt(hits))), One) THEN One
        ELSE RAdd(Rat(2, 5), RMul(Rat(1, 5), FromInt(hits)))

\* categorizer.py:152-161: <<best_cat, best_score>> after the first k entries
\* of the keyword map; "" is the None best_cat starts as
RECURSIVE best_keyword_match(_, _, _, _)
best_keyword_match(keyword_map, text, amount, k) ==
    IF k = 0 THEN <<"", Zero>>
    ELSE LET before == best_keyword_match(keyword_map, text, amount, k - 1)
             cat == keyword_map[k][1]
             hit == _score_keywords(text, keyword_map[k][2])
             score == IF amount > 0 /\ cat \in {"income", "salary", "bonus"}
                      THEN RAdd(hit, Rat(1, 10)) ELSE hit
         IN  IF score # before[2] /\ RGe(score, before[2]) THEN <<cat, score>> ELSE before

\* RuleBasedCategorizer.categorize, categorizer.py:131-166
RuleBasedCategorizer_categorize(rule, description, amount, merchant) ==
    LET text == _normalize(description)
        merchant_norm == _normalize(merchant)
        exact == {k \in 1..Len(rule.merchant_map) : rule.merchant_map[k][1] = merchant_norm}
        inside == {k \in 1..Len(rule.merchant_map) :
                      Contains(merchant_norm, rule.merchant_map[k][1])}
        best == best_keyword_match(rule.keyword_map, text, amount, Len(rule.keyword_map))
    IN  IF merchant_norm # <<>> /\ exact # {}
        THEN CategorizationResult(rule.merchant_map[CHOOSE k \in exact : TRUE][2],
                                  Rat(9, 10), "rules-merchant", merchant_norm)
        ELSE IF merchant_norm # <<>> /\ inside # {}
        THEN CategorizationResult(
                 rule.merchant_map[CHOOSE k \in inside : \A j \in inside : k <= j][2],
                 Rat(3, 4), "rules-merchant", merchant_norm)
        ELSE IF best[1] # "" /\ RGe(best[2], rule.min_confidence)
        THEN CategorizationResult(best[1], IF RGe(best[2], One) THEN One ELSE best[2],
                                  "rules", merchant_norm)
        ELSE CategorizationResult(rule.default_category, Zero, "rules-fallback",
                                  merchant_norm)

\* the exception a fallback may raise (ZeroShotLLMCategorizer, categorizer.py:237-289)
RuntimeError == [category |-> "RuntimeError", confidence |-> Zero, source |-> "raise",
                 merchant |-> Null, notes |-> Null]

\* self.fallback: absent (None), or a callable that returns None, returns a
\* result, or raises
Fallback(kind, res) == [kind |-> kind, result |-> res]

NoFallback == Fallback("absent", RuntimeError)

YieldsNone == Fallback("returns None", RuntimeError)

Raises == Fallback("raises", RuntimeError)

\* the outcome of self.fallback(description, amount, merchant, mcc), None being Null
call_fallback(f) ==
    IF f.kind = "returns None" THEN Null
    ELSE IF f.kind = "raises" THEN RuntimeError
    ELSE f.result

\* a slip: the rule result must exceed the threshold
CategorizerPipeline_categorize_strict(p, description, amount, merchant) ==
    LET res == RuleBasedCategorizer_categorize(p.primary, description, amount, merchant)
    IN  IF res.confidence # p.min_confidence_for_rules
           /\ RGe(res.confidence, p.min_confidence_for_rules)
        THEN res
        ELSE IF p.fallback.kind # "absent"
        THEN IF p.fallback.kind # "returns None" THEN call_fallback(p.fallback) ELSE res
        ELSE res

\* CategorizerPipeline.categorize, categorizer.py:310-325; p.fallback is what
\* the fallback callable does when called: a result, None, or an exception
CategorizerPipeline_categorize(p, description, amount, merchant) ==
    LET res == RuleBasedCategorizer_categorize(p.primary, description, amount, merchant)
    IN  IF RGe(res.confidence, p.min_confidence_for_rules) THEN res
        ELSE IF p.fallback.kind # "absent"
        THEN IF p.fallback.kind # "returns None" THEN call_fallback(p.fallback) ELSE res
        ELSE res

-----------------------------------------------------------------------------
(* The pipelines and transactions categorize is called on *)

\* a keyword map and a merchant map in dict order (the constructor's arguments)
KeywordMap ==
    << <<"income", << <<"p", "a", "y">> >> >>,
       <<"travel", << <<"u", "b", "e", "r">> >> >>,
       <<"fuel", << <<"g", "a", "s">>, <<"b", "p">>, <<"g", "a", "s", " ", "b", "p">> >> >> >>

MerchantMap == << << <<"u", "b", "e", "r">>, "travel" >> >>

Descriptions ==
    { <<"U", "b", "e", "r">>,
      <<"g", "a", "s">>,
      <<" ", "G", "a", "s", " ", " ", "b", "p", " ">>,
      <<"p", "a", "y">>,
      <<"x", "y", "z">> }

Merchants == { <<>>, <<"U", "b", "e", "r">>, <<"u", "b", "e", "r", " ", "e", "a", "t", "s">> }

Amounts == {-20, 20}

\* what the fallback does: not configured; yields nothing; yields a result, of
\* high or low confidence; raises
Fallbacks ==
    { NoFallback, YieldsNone, Raises,
      Fallback("returns", CategorizationResult("travel", Rat(9, 10), "dummy-fallback", Null)),
      Fallback("returns", CategorizationResult("other", Rat(1, 2), "llm", Null)) }

Pipelines ==
    { [primary |-> [keyword_map |-> KeywordMap, merchant_map |-> MerchantMap,
                    min_confidence |-> c, default_category |-> "other"],
       fallback |-> f,
       min_confidence_for_rules |-> t] :
        c \in {Rat(7, 20), Rat(9, 10)},
        f \in Fallbacks,
        t \in {Rat(3, 5), Rat(4, 5), Rat(9, 10)} }

\* a pipeline and the transaction it is about to be asked about
CatInit ==
    /\ pipeline \in { [p |-> p, description |-> d, amount |-> a, merchant |-> mch] :
                        p \in Pipelines, d \in Descriptions, a \in Amounts,
                        mch \in Merchants }
    /\ result = Null
    /\ pc = "call"
    /\ SimIdle
    /\ AggIdle
    /\ RestIdle
    /\ StoreIdle
    /\ RunIdle
    /\ PlanIdle

\* pipeline.categorize(description, amount, merchant)
Categorize ==
    /\ pc = "call"
    /\ result' = CategorizerPipeline_categorize(pipeline.p, pipeline.description,
                                                pipeline.amount, pipeline.merchant)
    /\ pc' = IF CategorizerPipeline_categorize(pipeline.p, pipeline.description,
                                               pipeline.amount, pipeline.merchant)
                = RuntimeError
             THEN "raised" ELSE "returned"
    /\ UNCHANGED <<pipeline, simVarsButPc, aggVars, storeVars, runVars, planVars, restVars>>

CatNext == Categorize

CatSpec == CatInit /\ [][CatNext]_vars

-----------------------------------------------------------------------------
(* Properties of simulate_monthly, checked under Spec *)

\* the account at position k has a name no other account of the run has
name_unique(k) ==
    \A j \in 1..Len(account_states) :
        account_states[j].item.name = account_states[k].item.name => j = k

\* a snapshot has just been appended; records changes in no other step, so a
\* property of records is checked in these states
emitted == pc \in {"begin", "done"}

\* the balance the snapshot of month mm shows for the account at position k
snapshot_balance(mm, k) == records[mm + 1].balances[account_states[k].item.name]

\* C1: in every snapshot NetCashflow = TotalIncome - TotalSpending - TotalTax.
\* The code computes NetCashflow (line 101) before it adds up the spending
\* (lines 131-137), so the spending is never subtracted.
C1_NetCashflowIdentity ==
    emitted => \A j \in 1..Len(records) :
        records[j].NetCashflow =
            RSub(RSub(records[j].TotalIncome, records[j].TotalSpending), records[j].TotalTax)

\* the snapshots after the end month of account k show its end-month balance
frozen_after_end(k) ==
    \A mm \in 0..(Len(records) - 1) :
        mm > account_states[k].end_m =>
            snapshot_balance(mm, k) = snapshot_balance(account_states[k].end_m, k)

C3_LiquidationConservesValue ==
    [][ ( /\ pc = "end"
          /\ account_states[idx].active
          /\ m = account_states[idx].end_m
          /\ account_states[idx].item.end_action = "liquidate_to_cash" )
        => RAdd(account_states'[idx].value, account_states'[primary_cash].value)
             = RAdd(account_states[idx].value, account_states[primary_cash].value) ]_vars

\* C4: the run returns exactly max(1, years*12) snapshots with MonthIndex
\* 0, 1, ... in order.
C4_MonthCount ==
    /\ \A j \in 1..Len(records) : records[j].MonthIndex = j - 1
    /\ pc = "done" =>
          Len(records) = (IF cfg.years * 12 >= 1 THEN cfg.years * 12 ELSE 1)

\* a finished run of a plan with a horizon of 0 years
C4_Witness == pc = "done" /\ cfg.years = 0 /\ Len(records) = 1

\* the plan of C5: one cash account active from month 0 with growth rate 0 (the
\* other fields at their defaults: end action keep), one taxable income stream
\* with no window, no spending
C5_Plan ==
    /\ Len(cfg.accounts) = 1
    /\ Lower(cfg.accounts[1].category) = cash
    /\ cfg.accounts[1].start_year[1] <= 0
    /\ cfg.accounts[1].apr = Zero
    /\ cfg.accounts[1].interest_rate = Zero
    /\ cfg.accounts[1].end_action = "keep"
    /\ Len(cfg.incomes) = 1
    /\ cfg.incomes[1].taxable
    /\ cfg.incomes[1].start_year = Zero
    /\ cfg.incomes[1].end_year = Zero
    /\ cfg.spendings = <<>>

\* C5: for that plan, with principal P, monthly income I and tax rate t, the
\* snapshot of month mm has TotalIncome = TaxableIncome = I, TotalTax = I*t,
\* NetCashflow = I - I*t and cash balance P + (mm+1)*(I - I*t); with P = 1000,
\* I = 1000, t = 1/4 that is 1750 in month 0 and 10000 in month 11.
C5_EndToEnd ==
    (emitted /\ C5_Plan) =>
        LET P   == cfg.accounts[1].principal
            I   == RMul(cfg.incomes[1].annual_amount, Rat(1, 12))
            t   == cfg.tax_rate
            net == RSub(I, RMul(I, t))
            bal(mm) == records[mm + 1].balances[cfg.accounts[1].name]
        IN  /\ \A mm \in 0..(Len(records) - 1) :
                  /\ records[mm + 1].TotalIncome = I
                  /\ records[mm + 1].TaxableIncome = I
                  /\ records[mm + 1].TotalTax = RMul(I, t)
                  /\ records[mm + 1].NetCashflow = net
                  /\ bal(mm) = RAdd(P, RMul(FromInt(mm + 1), net))
            /\ (P = FromInt(1000) /\ I = FromInt(1000) /\ t = Rat(1, 4)) =>
                  /\ Len(records) >= 1 => bal(0) = FromInt(1750)
                  /\ Len(records) >= 12 => bal(11) = FromInt(10000)

\* the example plan after its twelfth month
C5_Witness ==
    /\ C5_Plan
    /\ cfg.accounts[1].principal = FromInt(1000)
    /\ cfg.incomes[1].annual_amount = FromInt(12000)
    /\ cfg.tax_rate = Rat(1, 4)
    /\ Len(records) = 12
    /\ records[1].TotalTax = FromInt(250)
    /\ records[12].balances[cfg.accounts[1].name] = FromInt(10000)

\* the monthly rate of an item, from its fields
item_rate(item) ==
    RMul(IF item.apr[1] # 0 THEN item.apr ELSE item.interest_rate, Rat(1, 12))

\* initial_value * (1 + monthly_rate)^(mm - start_m + 1)
compounded(k, mm) ==
    RMul(account_states[k].initial_value,
         RPow(RAdd(One, item_rate(account_states[k].item)),
              mm - account_states[k].start_m + 1))

zeroed_at_end(k) == account_states[k].item.end_action \in {"liquidate_to_cash", "drop"}

\* C6 as stated: an account other than primary cash shows the compounded
\* balance in the snapshot of every month of its window, the end month included.
C6_CompoundedThroughEndMonth ==
    emitted => \A k \in 1..Len(account_states) : \A mm \in 0..(Len(records) - 1) :
        ( /\ k # primary_cash
          /\ name_unique(k)
          /\ account_states[k].start_m <= mm
          /\ mm <= account_states[k].end_m )
        => snapshot_balance(mm, k) = compounded(k, mm)

\* C6 amended: an account other than primary cash shows the compounded balance
\* in the snapshot of every month of its window before the end month, and in the
\* end month too when its end action is keep; a liquidate_to_cash or drop
\* account shows 0 in its end month.
C6_CompoundedBeforeEndAction ==
    emitted => \A k \in 1..Len(account_states) : \A mm \in 0..(Len(records) - 1) :
        ( /\ k # primary_cash
          /\ name_unique(k)
          /\ account_states[k].start_m <= mm
          /\ mm <= account_states[k].end_m )
        => IF mm = account_states[k].end_m /\ zeroed_at_end(k)
           THEN snapshot_balance(mm, k) = Zero
           ELSE snapshot_balance(mm, k) = compounded(k, mm)

\* an investment other than primary cash that has compounded for three months
C6_Witness ==
    \E k \in 1..Len(account_states) :
        /\ k # primary_cash
        /\ name_unique(k)
        /\ item_rate(account_states[k].item) # Zero
        /\ Len(records) > account_states[k].start_m + 2
        /\ account_states[k].start_m + 2 < account_states[k].end_m
        /\ snapshot_balance(account_states[k].start_m + 2, k)
             = RMul(account_states[k].initial_value,
                    RPow(RAdd(One, item_rate(account_states[k].item)), 3))
        /\ snapshot_balance(account_states[k].start_m + 2, k)
             # snapshot_balance(account_states[k].start_m, k)

\* the category is "debt" in any letter case
is_debt_category(c) ==
    /\ Len(c) = 4
    /\ c[1] \in {"d", "D"}
    /\ c[2] \in {"e", "E"}
    /\ c[3] \in {"b", "B"}
    /\ c[4] \in {"t", "T"}

\* C7: the balance an account gets when it is activated is -|principal| for a
\* debt (category compared case-insensitively), so never positive, and the
\* principal as given for every other category.
C7_DebtInitialBalance ==
    [][ \A k \in 1..Len(account_states) :
          (pc = "begin" /\ ~account_states[k].active /\ account_states'[k].active) =>
              LET item == account_states[k].item
              IN  IF is_debt_category(item.category)
                  THEN /\ account_states'[k].value[1] <= 0
                       /\ account_states'[k].value =
                            (IF item.principal[1] >= 0 THEN RNeg(item.principal)
                             ELSE item.principal)
                  ELSE account_states'[k].value = item.principal ]_vars

\* a debt written "Debt" with a positive principal, just activated
C7_Witness ==
    \E k \in 1..Len(account_states) :
        /\ pc = "tax"
        /\ m = account_states[k].start_m
        /\ account_states[k].active
        /\ account_states[k].item.category = <<"D", "e", "b", "t">>
        /\ account_states[k].item.principal[1] > 0
        /\ account_states[k].value = RNeg(account_states[k].item.principal)

\* the category is cash, whatever its case
is_cash_category(c) == Lower(c) = cash

\* the positions of the plan's cash accounts
plan_cash_accounts == {k \in 1..Len(cfg.accounts) : is_cash_category(cfg.accounts[k].category)}

\* the primary cash account is the plan's first cash account, the working
\* states being the plan's accounts in order; without one it is a synthesized
\* cash account of principal 0, active, placed before the plan's accounts
primary_cash_is_the_sink ==
    LET cashes == plan_cash_accounts
        n == Len(cfg.accounts)
    IN  IF cashes # {}
        THEN /\ Len(account_states) = n
             /\ primary_cash \in cashes
             /\ \A k \in cashes : primary_cash <= k
             /\ \A k \in 1..n : account_states[k].item = cfg.accounts[k]
        ELSE /\ Len(account_states) = n + 1
             /\ primary_cash = 1
             /\ is_cash_category(account_states[1].item.category)
             /\ account_states[1].item.principal = Zero
             /\ account_states[1].initial_value = Zero
             /\ account_states[1].start_m = 0
             /\ account_states[1].active
             /\ (m = 0 /\ pc = "begin" => account_states[1].value = Zero)
             /\ \A k \in 1..n : account_states[k + 1].item = cfg.accounts[k]

\* a step leaves alone everything the sink's identity is read from: the plan,
\* the position of the primary cash account, every working state's account,
\* the sink's initial value and start month, and a synthesized sink's activity
sink_is_kept ==
    /\ cfg' = cfg
    /\ primary_cash' = primary_cash
    /\ Len(account_states') = Len(account_states)
    /\ \A k \in 1..Len(account_states) : account_states'[k].item = account_states[k].item
    /\ account_states'[primary_cash].initial_value = account_states[primary_cash].initial_value
    /\ account_states'[primary_cash].start_m = account_states[primary_cash].start_m
    /\ Len(account_states) > Len(cfg.accounts) =>
          (account_states[primary_cash].active => account_states'[primary_cash].active)

\* C12: every run has one primary cash sink, the plan's first cash account or,
\* without one, a synthesized zero-balance cash account that is active from
\* month 0 and comes first: it is so when the first month begins, every step
\* keeps it, and it is so when the run is done; the month's net cash flow goes
\* to it (or to its buffer) and to no other account, and the proceeds of every
\* other account's liquidation are added to it and to no other account
C12_PrimaryCashSink ==
    [][ /\ (m = 0 /\ pc = "begin") => primary_cash_is_the_sink
        /\ sink_is_kept
        /\ pc' = "done" => primary_cash_is_the_sink'
        /\ pc = "cash" =>
              /\ \A k \in 1..Len(account_states) :
                    k # primary_cash => account_states'[k] = account_states[k]
              /\ RAdd(account_states'[primary_cash].value, cash_buffer') =
                    RAdd(RAdd(account_states[primary_cash].value, cash_buffer),
                         loc.net_cashflow)
        /\ ( /\ pc = "end"
             /\ idx # primary_cash
             /\ account_states[idx].active
             /\ m = account_states[idx].end_m
             /\ account_states[idx].item.end_action = "liquidate_to_cash" ) =>
              /\ account_states'[primary_cash].value =
                    RAdd(account_states[primary_cash].value, account_states[idx].value)
              /\ \A k \in 1..Len(account_states) :
                    k \notin {primary_cash, idx} => account_states'[k] = account_states[k]
      ]_vars

\* a plan without a cash account whose investment was liquidated into the
\* synthesized account, which also received net cash flow
C12_Witness ==
    /\ pc = "done"
    /\ plan_cash_accounts = {}
    /\ primary_cash = 1
    /\ account_states[1].item.name = CashReserve
    /\ \E k \in 2..Len(account_states) :
          /\ account_states[k].completed
          /\ account_states[k].item.end_action = "liquidate_to_cash"
          /\ ~RIsNeg(account_states[k].initial_value)
          /\ account_states[k].initial_value # Zero
    /\ \E j \in 1..Len(records) : records[j].NetCashflow # Zero
    /\ account_states[1].value # Zero

\* C13: an account marked completed stays completed and inactive in every
\* later step of the run, and the activation step leaves its balance alone
C13_CompletedNeverReactivates ==
    [][ \A k \in 1..Len(account_states) :
            account_states[k].completed =>
                /\ account_states'[k].completed
                /\ ~account_states'[k].active
                /\ (pc = "begin" => account_states'[k].value = account_states[k].value)
      ]_vars

\* an account with a non-zero initial value was completed in an earlier month
\* and the activation step of a later month has run
C13_Witness ==
    /\ pc = "tax"
    /\ \E k \in 1..Len(account_states) :
          /\ account_states[k].completed
          /\ ~account_states[k].active
          /\ account_states[k].end_m < m
          /\ account_states[k].initial_value # Zero
          /\ account_states[k].value # account_states[k].initial_value

-----------------------------------------------------------------------------
(* Properties of aggregate_period, checked under AggSpec *)

\* the first call has returned a table
aggregated == pc \in {"again", "returned"}

\* the input has rows and the required columns
well_formed(d) == ~empty(d) /\ REQUIRED_COLUMNS \subseteq d.columns

\* the bucket width the frequency selects: 3 for Q, 12 for Y, 1 otherwise
bucket_width(f) ==
    IF f \in {<<"Q">>, <<"q">>} THEN 3
    ELSE IF f \in {<<"Y">>, <<"y">>} THEN 12
    ELSE 1

\* rows in order of scenario, then PeriodValue
ordered_by_period(rows) ==
    \A a, b \in 1..Len(rows) :
        a < b =>
            \/ ScenarioRank(rows[a].Scenario) < ScenarioRank(rows[b].Scenario)
            \/ /\ rows[a].Scenario = rows[b].Scenario
               /\ rows[a].PeriodValue < rows[b].PeriodValue

\* C8: at Q or Y the result has exactly one row per scenario and bucket
\* MonthIndex // k of the input, every input field of that row is the field of
\* the input row with the largest MonthIndex of the bucket, and the rows are
\* ordered by scenario and PeriodValue.  GroupBy.last() takes, column by
\* column, the last cell that is not null, so a null cell in the last row of a
\* bucket is filled from an earlier month.
C8_LastRowOfBucket ==
    (aggregated /\ well_formed(df) /\ bucket_width(freq) > 1) =>
        LET w == bucket_width(freq)
            buckets == {<<df.rows[k].Scenario, df.rows[k].MonthIndex \div w>> :
                           k \in 1..Len(df.rows)}
            last_of(b) == CHOOSE k \in 1..Len(df.rows) :
                            /\ <<df.rows[k].Scenario, df.rows[k].MonthIndex \div w>> = b
                            /\ \A j \in 1..Len(df.rows) :
                                 <<df.rows[j].Scenario, df.rows[j].MonthIndex \div w>> = b
                                    => df.rows[j].MonthIndex <= df.rows[k].MonthIndex
        IN  /\ Len(out1.rows) = Cardinality(buckets)
            /\ \A b \in buckets :
                 \E g \in 1..Len(out1.rows) :
                    /\ out1.rows[g].Scenario = b[1]
                    /\ out1.rows[g].PeriodValue = b[2]
                    /\ \A c \in df.columns : out1.rows[g][c] = df.rows[last_of(b)][c]
            /\ ordered_by_period(out1.rows)

\* C9: aggregating the result again at the same frequency gives the same rows
\* and field values, for every table and every frequency.
C9_Idempotent == pc = "returned" => out2 = out1

\* a quarterly result of several rows, fewer than the input has, aggregated again
C9_Witness ==
    /\ pc = "returned"
    /\ bucket_width(freq) = 3
    /\ Len(out1.rows) >= 3
    /\ Len(out1.rows) < Len(df.rows)
    /\ out2.rows = out1.rows

\* C10: at frequency M the result has as many rows as the input, every input
\* row is in it with every input field unchanged, PeriodValue = MonthIndex and
\* Period = Month are the only additions, and the rows are ordered by
\* (Scenario, MonthIndex).
C10_MonthlyIdentity ==
    (aggregated /\ well_formed(df) /\ bucket_width(freq) = 1) =>
        /\ Len(out1.rows) = Len(df.rows)
        /\ out1.columns = df.columns \cup {"PeriodValue", "Period"}
        /\ \A k \in 1..Len(df.rows) :
             \E g \in 1..Len(out1.rows) :
                /\ \A c \in df.columns : out1.rows[g][c] = df.rows[k][c]
                /\ out1.rows[g].PeriodValue = df.rows[k].MonthIndex
                /\ "Month" \in df.columns => out1.rows[g].Period = df.rows[k].Month
        /\ \A a, b \in 1..Len(out1.rows) :
             a < b =>
                \/ ScenarioRank(out1.rows[a].Scenario) < ScenarioRank(out1.rows[b].Scenario)
                \/ /\ out1.rows[a].Scenario = out1.rows[b].Scenario
                   /\ out1.rows[a].MonthIndex < out1.rows[b].MonthIndex

\* two scenarios stored out of name order, several months each, aggregated at
\* a frequency that defaults to M
C10_Witness ==
    /\ aggregated
    /\ freq = <<"W">>
    /\ "Month" \in df.columns
    /\ Len(df.rows) >= 7
    /\ df.rows[1].Scenario = "B"
    /\ out1.rows[1].Scenario = "A"
    /\ out1.rows[1].Period = <<2024, 1>>
    /\ out1.rows[Len(out1.rows)].Scenario = "B"

\* aggregate_period(df, freq) has been called
called == pc \in {"again", "returned", "raised"}

\* the table has no row, or no column
is_empty_table(d) == Len(d.rows) = 0 \/ d.columns = {}

\* C15: aggregate_period on a non-empty table that lacks any of Scenario,
\* MonthIndex, CalendarYear, MonthInYear raises the missing-columns error and
\* returns no result, whatever the frequency
C15_MissingColumnsFatal ==
    (called /\ ~is_empty_table(df)
         /\ \E c \in {"Scenario", "MonthIndex", "CalendarYear", "MonthInYear"} :
               c \notin df.columns)
      => (out1 = KeyError /\ pc = "raised" /\ out2 = Null)

\* a monthly request on a table with rows that lacks only MonthInYear, a column
\* the monthly path never reads
C15_Witness ==
    /\ pc = "raised"
    /\ out1 = KeyError
    /\ Len(df.rows) > 1
    /\ df.columns = MonthlyColumns \ {"MonthInYear"}
    /\ normalize_freq(freq) = <<"M">>

\* C16: aggregate_period on an empty input raises no error and returns an
\* empty result, whatever the frequency and the columns of the input
C16_EmptyInEmptyOut ==
    (called /\ is_empty_table(df))
      => (out1 # KeyError /\ is_empty_table(out1) /\ pc # "raised")

\* a quarterly request on a table without rows that lacks the required columns
C16_Witness ==
    /\ aggregated
    /\ df.rows = <<>>
    /\ df.columns = {"NetWorth"}
    /\ normalize_freq(freq) = <<"Q">>
    /\ out1 = df

-----------------------------------------------------------------------------
(* Properties of the scenario store, checked under ApiSpec *)

\* the operations since the last clear
RECURSIVE since_clear(_)
since_clear(h) ==
    IF h = <<>> THEN <<>>
    ELSE IF h[Len(h)][1] = "clear" THEN <<>>
    ELSE Append(since_clear(SubSeq(h, 1, Len(h) - 1)), h[Len(h)])

\* the table of the most recent add of name among the adds of h
latest_added(h, name) ==
    LET last == CHOOSE k \in 1..Len(h) :
                    /\ h[k][2] = name
                    /\ \A j \in (k + 1)..Len(h) : h[j][2] # name
    IN  h[last][3]

\* the names of the adds of h, each once, in the order of their first add
RECURSIVE names_in_order(_)
names_in_order(h) ==
    IF h = <<>> THEN <<>>
    ELSE LET before == names_in_order(SubSeq(h, 1, Len(h) - 1))
             name == h[Len(h)][2]
         IN  IF \E k \in 1..Len(before) : before[k] = name THEN before
             ELSE Append(before, name)

\* C11: after any sequence of add_scenario and clear, the store holds one
\* entry for each name added since the last clear and no other, the entry is
\* the table most recently added under the name, and get_all_monthly returns
\* the concatenation of exactly those tables, the empty table when there are none
C11_LastWriteWins ==
    pc = "serve" =>
        LET h == since_clear(history)
            names == names_in_order(h)
        IN  /\ {scenarios[k][1] : k \in 1..Len(scenarios)} = {h[k][2] : k \in 1..Len(h)}
            /\ \A a, b \in 1..Len(scenarios) : a # b => scenarios[a][1] # scenarios[b][1]
            /\ \A k \in 1..Len(scenarios) : scenarios[k][2] = latest_added(h, scenarios[k][1])
            /\ (response # Null /\ response.call = "get_all_monthly") =>
                  /\ response.value.rows =
                        concat_over([k \in 1..Len(names) |-> latest_added(h, names[k])],
                                    response.value.columns)
                  /\ response.value.columns =
                        UNION {latest_added(h, names[k]).columns : k \in 1..Len(names)}
                  /\ (h = <<>> => response.value = DataFrame({}, <<>>))

\* a name was added twice with different tables, another name in between, and
\* get_all_monthly was called
C11_Witness ==
    /\ pc = "serve"
    /\ response # Null
    /\ response.call = "get_all_monthly"
    /\ Len(scenarios) = 2
    /\ \E a, b \in 1..Len(history) :
          /\ a + 1 < b
          /\ history[a][1] = "add" /\ history[b][1] = "add"
          /\ history[a][2] = history[b][2]
          /\ history[a][3] # history[b][3]
          /\ history[a + 1][1] = "add"

\* the frequency a selector stands for: quarterly for q and Q, yearly for y
\* and Y, monthly for everything else
selected_freq(f) ==
    IF f \in {<<"q">>, <<"Q">>} THEN <<"Q">>
    ELSE IF f \in {<<"y">>, <<"Y">>} THEN <<"Y">>
    ELSE <<"M">>

\* the records an aggregated payload carries for table d at frequency f
payload_records(d, f) ==
    IF empty(d) THEN <<>> ELSE _sanitize_records(to_dict_records(aggregate_period(d, f)))

\* the last call was aggregate_period on the stored scenarios
answered_aggregate == response # Null /\ response.call = "aggregate_period"

\* the last call was a scenarios request that returned a payload
answered_request ==
    response # Null /\ response.call = "list_scenarios" /\ response.value # KeyError

\* C17 as stated: q and Q select quarterly, y and Y yearly, and every other
\* selector (empty, missing, unknown) is treated as monthly, in aggregate_period
\* and in the request path that builds the aggregated payload
C17_DefaultsToMonthlyEverywhere ==
    /\ answered_aggregate =>
          response.value =
              aggregate_period(get_all_monthly(scenarios), selected_freq(response.arg))
    /\ answered_request =>
          response.value.data =
              payload_records(get_all_monthly(scenarios), selected_freq(response.arg))

\* C17 amended: as stated for aggregate_period; in the request path an empty
\* or missing selector selects quarterly, every other selector as stated
C17_RequestDefaultsToQuarterly ==
    /\ answered_aggregate =>
          response.value =
              aggregate_period(get_all_monthly(scenarios), selected_freq(response.arg))
    /\ answered_request =>
          response.value.data =
              payload_records(get_all_monthly(scenarios),
                              IF response.arg \in {NoArg, <<>>} THEN <<"Q">>
                              ELSE selected_freq(response.arg))

\* a request without selector on four or more stored months, whose quarterly and
\* monthly payloads differ
C17_Witness ==
    /\ answered_request
    /\ response.arg = NoArg
    /\ Len(get_all_monthly(scenarios).rows) >= 4
    /\ Len(response.value.data) < Len(get_all_monthly(scenarios).rows)
    /\ response.value.data # payload_records(get_all_monthly(scenarios), <<"M">>)

\* the value is a float that is not finite
non_finite(c, value) == c \in NullableColumns /\ (value = nan \/ value = inf \/ value = neg_inf)

\* C18: the records of every aggregated payload are the records of the
\* aggregated table with the same keys, null in place of every NaN, +Infinity
\* and -Infinity and every other value unchanged, so that no non-finite number
\* is left in them
C18_NoNonFiniteInPayload ==
    answered_request =>
        LET d == get_all_monthly(scenarios)
            raw == IF empty(d) THEN <<>>
                   ELSE to_dict_records(aggregate_period(d, response.value.freq))
            data == response.value.data
        IN  /\ Len(data) = Len(raw)
            /\ \A k \in 1..Len(raw) :
                  /\ DOMAIN data[k] = DOMAIN raw[k]
                  /\ \A c \in DOMAIN raw[k] :
                        /\ non_finite(c, raw[k][c]) => data[k][c] = Null
                        /\ ~non_finite(c, raw[k][c]) => data[k][c] = raw[k][c]
                        /\ ~non_finite(c, data[k][c])

\* a monthly payload of two scenarios, one with infinite net worth in two
\* months, the other with a column the first lacks: NaN, +Infinity and
\* -Infinity were all replaced
C18_Witness ==
    /\ answered_request
    /\ response.value.freq = <<"M">>
    /\ LET raw == to_dict_records(aggregate_period(get_all_monthly(scenarios), <<"M">>))
       IN  /\ \E k \in 1..Len(raw) : raw[k].NetWorth = inf /\ response.value.data[k].NetWorth = Null
           /\ \E k \in 1..Len(raw) : raw[k].NetWorth = neg_inf
           /\ \E k \in 1..Len(raw) :
                 /\ "Savings" \in DOMAIN raw[k]
                 /\ raw[k].Savings = nan
                 /\ response.value.data[k].Savings = Null

-----------------------------------------------------------------------------
(* Properties of repeated calls of simulate_monthly, checked under RunsSpec *)

-----------------------------------------------------------------------------
(* Properties of the saved plans, checked under PlanSpec *)

\* w is v with None in place of every float that is not finite, at any depth
\* of dicts and lists, and nothing else changed
RECURSIVE is_sanitized_image(_, _)
is_sanitized_image(v, w) ==
    IF v.type = "float" /\ (v.v = nan \/ v.v = inf \/ v.v = neg_inf)
    THEN w.type = "NoneType"
    ELSE /\ w.type = v.type
         /\ IF v.type = "list"
            THEN /\ Len(w.v) = Len(v.v)
                 /\ \A k \in 1..Len(v.v) : is_sanitized_image(v.v[k], w.v[k])
            ELSE IF v.type = "dict"
            THEN /\ Len(w.v) = Len(v.v)
                 /\ \A k \in 1..Len(v.v) :
                       /\ w.v[k][1] = v.v[k][1]
                       /\ is_sanitized_image(v.v[k][2], w.v[k][2])
            ELSE w.v = v.v

\* C19: _sanitize_json_compat replaces every NaN, +Infinity and -Infinity by
\* None at any depth of dicts and lists and changes nothing else, and the
\* plans file, read back, is that sanitized form of the plans held in memory
C19_SavedPlansSanitized ==
    /\ is_sanitized_image(PyDict(plans), _sanitize_json_compat(PyDict(plans)))
    /\ IF plans_file = Null THEN plans = <<>>
       ELSE /\ is_sanitized_image(PyDict(plans), json_load(plans_file))
            /\ json_load(plans_file) = _sanitize_json_compat(PyDict(plans))

\* a plan with NaN at its top level, -Infinity inside a dict of a list and
\* +Infinity inside a list of a list was saved, and the file holds null there
C19_Witness ==
    /\ plans_file # Null
    /\ \E k \in 1..Len(plans) :
          /\ plans[k][2].v[2][2].v = nan
          /\ plans[k][2].v[3][2].v[1].v[1][2].v = neg_inf
          /\ plans[k][2].v[4][2].v[1].v[2].v = inf
          /\ plans_file.v[k][2].v[2][2].json = "null"
          /\ plans_file.v[k][2].v[3][2].v[1].v[1][2].json = "null"
          /\ plans_file.v[k][2].v[4][2].v[1].v[2].json = "null"
          /\ plans_file.v[k][2].v[4][2].v[1].v[1].json = "number"

-----------------------------------------------------------------------------
(* Properties of CategorizerPipeline.categorize, checked under CatSpec *)

\* what the rule-based categorizer says about the transaction
rule_result ==
    RuleBasedCategorizer_categorize(pipeline.p.primary, pipeline.description,
                                    pipeline.amount, pipeline.merchant)

\* the rule-based confidence reaches min_confidence_for_rules
rules_confident == ~RIsNeg(RSub(rule_result.confidence, pipeline.p.min_confidence_for_rules))

\* C20: categorize returns the rule-based result when its confidence is at
\* least min_confidence_for_rules; otherwise the fallback's result when a
\* fallback is configured and yields one; and the low-confidence rule-based
\* result when there is no fallback or the fallback yields nothing
C20_RulesThenFallback ==
    pc # "call" =>
        /\ rules_confident => (pc = "returned" /\ result = rule_result)
        /\ (~rules_confident /\ pipeline.p.fallback.kind = "returns") =>
              (pc = "returned" /\ result = pipeline.p.fallback.result)
        /\ (~rules_confident /\ pipeline.p.fallback.kind \in {"absent", "returns None"}) =>
              (pc = "returned" /\ result = rule_result)

\* a keyword match of confidence 3/5 under a threshold of 4/5: the fallback's
\* result was returned although its own confidence is lower still
C20_Witness ==
    /\ pc = "returned"
    /\ rule_result.source = "rules"
    /\ rule_result.confidence = Rat(3, 5)
    /\ pipeline.p.min_confidence_for_rules = Rat(4, 5)
    /\ pipeline.p.fallback.kind = "returns"
    /\ result.source = "llm"

-----------------------------------------------------------------------------
(* Further properties of simulate_monthly, checked under Spec *)

\* the NetCashflow of the months 0..m, while month m is being computed
net_cashflow_through_m ==
    RAdd(RSum([j \in 1..Len(records) |-> records[j].NetCashflow]), loc.net_cashflow)

\* C23: in the cash step of a month in which primary cash is not active the
\* month's net cash flow is added to the buffer and no balance changes; before
\* primary cash has started the buffer then holds the NetCashflow of all months
\* so far; in the cash step of a month in which primary cash is active the
\* buffer and the month's net cash flow are added to its balance and the buffer
\* is 0 afterwards; in its start month its balance after the step is its
\* initial value plus the NetCashflow of months 0..start
C23_BufferFlushedAtStart ==
    [][ pc = "cash" =>
          LET cash_state == account_states[primary_cash]
          IN  /\ ~cash_state.active =>
                    /\ cash_buffer' = RAdd(cash_buffer, loc.net_cashflow)
                    /\ account_states' = account_states
              /\ (~cash_state.active /\ m < cash_state.start_m) =>
                    cash_buffer' = net_cashflow_through_m
              /\ cash_state.active =>
                    /\ account_states'[primary_cash].value =
                          RAdd(RAdd(cash_state.value, cash_buffer), loc.net_cashflow)
                    /\ cash_buffer' = Zero
              /\ m = cash_state.start_m =>
                    /\ cash_state.active
                    /\ account_states'[primary_cash].value =
                          RAdd(cash_state.initial_value, net_cashflow_through_m)
      ]_vars

\* a primary cash account that starts in month 3 or later, right after the
\* cash step of its start month: three months of non-zero net cash flow were
\* buffered and are now in its balance
C23_Witness ==
    /\ pc = "growth"
    /\ m = account_states[primary_cash].start_m
    /\ m >= 3
    /\ \A j \in 1..Len(records) : records[j].NetCashflow # Zero
    /\ cash_buffer = Zero
    /\ account_states[primary_cash].value =
          RAdd(account_states[primary_cash].initial_value, net_cashflow_through_m)
    /\ account_states[primary_cash].value # account_states[primary_cash].initial_value

\* C24: an account whose end action is drop or liquidate_to_cash shows the
\* balance 0 in the snapshot of its end month and of every later month, the
\* primary cash account included, whatever other accounts liquidate meanwhile.
\* The code adds liquidation proceeds to the primary cash account (line 120)
\* also after that account has completed.
C24_ZeroFromEndMonthOn ==
    emitted => \A k \in 1..Len(account_states) : \A mm \in 0..(Len(records) - 1) :
        (zeroed_at_end(k) /\ name_unique(k) /\ mm >= account_states[k].end_m)
            => snapshot_balance(mm, k) = Zero

\* every account of the run has a name of its own
names_unique == \A k \in 1..Len(account_states) : name_unique(k)

\* the account is an investment (in any letter case) whose name does not
\* contain "hsa" (in any letter case)
is_taxable_investment(item) ==
    Lower(item.category) = investment /\ ~Contains(Lower(item.name), hsa)

\* the balance of account k before the cash application and growth of month
\* mm of its window: its initial value in its start month, later the balance
\* the previous month's snapshot shows
balance_before(mm, k) ==
    IF mm = account_states[k].start_m THEN account_states[k].initial_value
    ELSE snapshot_balance(mm - 1, k)

\* the sum of max(0, balance * monthly rate) over the taxable investments whose
\* window holds month mm
expected_taxable_growth(mm) ==
    RSum([k \in 1..Len(account_states) |->
            IF /\ is_taxable_investment(account_states[k].item)
               /\ account_states[k].start_m <= mm
               /\ mm <= account_states[k].end_m
            THEN RMax(Zero, RMul(balance_before(mm, k), item_rate(account_states[k].item)))
            ELSE Zero])

\* C25: in every snapshot TaxableBase = TaxableIncome + TaxableInvestmentGrowth,
\* TotalTax = TaxableBase * tax_rate and TaxableInvestmentGrowth >= 0; account
\* names being unique, TaxableInvestmentGrowth is the sum of
\* max(0, balance * monthly rate) over the investments without "hsa" in their
\* name that are within their window, on the balances before the month's cash
\* application and growth.  records is only appended to, so the snapshots of
\* a run are those its final state holds.
C25_TaxableBase ==
    pc = "done" => \A j \in 1..Len(records) :
        /\ records[j].TaxableBase =
              RAdd(records[j].TaxableIncome, records[j].TaxableInvestmentGrowth)
        /\ records[j].TotalTax = RMul(records[j].TaxableBase, cfg.tax_rate)
        /\ ~RIsNeg(records[j].TaxableInvestmentGrowth)
        /\ names_unique =>
              records[j].TaxableInvestmentGrowth = expected_taxable_growth(j - 1)

\* a taxed month in which one investment yields taxable growth while another
\* one, holding a balance, is left out: its name contains "HSA" or its yield
\* is negative
C25_Witness ==
    /\ pc = "done"
    /\ names_unique
    /\ \E j \in 2..Len(records) :
          /\ records[j].TaxableInvestmentGrowth # Zero
          /\ records[j].TotalTax # Zero
          /\ records[j].TaxableBase # records[j].TaxableInvestmentGrowth
          /\ \E k \in 1..Len(account_states) :
                /\ Lower(account_states[k].item.category) = investment
                /\ account_states[k].start_m < j - 1
                /\ j - 1 <= account_states[k].end_m
                /\ snapshot_balance(j - 2, k) # Zero
                /\ \/ Contains(Lower(account_states[k].item.name), hsa)
                   \/ RIsNeg(snapshot_balance(j - 2, k))

\* r is x rounded to an integer: no integer is nearer to x
is_rounded(x, r) == 2 * Abs(x[1] - r * x[2]) <= x[2]

\* the window of a working state is the one its item's offsets give over a
\* horizon of n months
window_as_derived(st, n) ==
    LET e12 == RMul(st.item.end_year, FromInt(12))
        fl  == e12[1] \div e12[2]
    IN  /\ 0 <= st.start_m
        /\ st.start_m <= st.end_m
        /\ IF st.item.end_year[1] <= 0
           THEN st.end_m = Max(n - 1, st.start_m)
           ELSE \E r \in {fl, fl + 1} :
                   /\ is_rounded(e12, r)
                   /\ st.end_m = Max(Min(r, n - 1), st.start_m)

\* C26: every account and cashflow of a run has a window with
\* 0 <= start_m <= end_m, where end_m is horizon_months - 1 when the end
\* offset is <= 0 and otherwise min(round(end_offset * 12), horizon_months - 1),
\* raised to start_m when it would precede it; checked when the run starts,
\* at the start of every later month and at the end of the run
C26_WindowWellFormed ==
    emitted =>
        /\ n_months = (IF cfg.years * 12 >= 1 THEN cfg.years * 12 ELSE 1)
        /\ \A k \in 1..Len(account_states) : window_as_derived(account_states[k], n_months)
        /\ \A k \in 1..Len(income_states) : window_as_derived(income_states[k], n_months)
        /\ \A k \in 1..Len(spending_states) : window_as_derived(spending_states[k], n_months)

\* a finished run with an account whose end offset (month 2) precedes its start
\* (month 6): it lived in month 6 only and was dropped there
C26_Witness ==
    /\ pc = "done"
    /\ Len(records) = 12
    /\ Len(income_states) > 0
    /\ Len(spending_states) > 0
    /\ \E k \in 1..Len(account_states) :
          /\ account_states[k].item.start_year = Months(6)
          /\ account_states[k].item.end_year = Months(2)
          /\ account_states[k].start_m = 6
          /\ account_states[k].end_m = 6
          /\ account_states[k].completed
          /\ name_unique(k) => snapshot_balance(5, k) = Zero

\* the account at position k, other than primary cash, liquidates in month mm
liquidates_in(mm, k) ==
    /\ k # primary_cash
    /\ account_states[k].end_m = mm
    /\ account_states[k].item.end_action = "liquidate_to_cash"

\* what the account at position k holds after the growth of month mm of its
\* window: the balance before the month, grown by the month's rate
grown_balance(mm, k) ==
    RMul(balance_before(mm, k), RAdd(One, item_rate(account_states[k].item)))

\* the proceeds of the accounts that liquidate in month mm
proceeds_of(mm) ==
    RSum([k \in 1..Len(account_states) |->
            IF liquidates_in(mm, k) THEN grown_balance(mm, k) ELSE Zero])

\* what primary cash holds before the cash application of month mm: in its
\* start month its initial value and the buffered NetCashflow of the months
\* before, later the balance of the previous month's snapshot
cash_before(mm) ==
    IF mm = account_states[primary_cash].start_m
    THEN RAdd(account_states[primary_cash].initial_value,
              RSum([j \in 1..mm |-> records[j].NetCashflow]))
    ELSE snapshot_balance(mm - 1, primary_cash)

\* C27: account names being unique, the snapshot of a month in which primary
\* cash is active shows for it ((balance before + NetCashflow) * (1 + rate))
\* plus the proceeds of the accounts liquidating in that month, each being the
\* account's balance before the month times (1 + its rate): cash application
\* comes before growth, and growth before the end action.  After the end month
\* of a kept primary cash account its growth factor is 1.
C27_CashThenGrowthThenEndAction ==
    (pc = "done" /\ names_unique) =>
        \A mm \in 0..(Len(records) - 1) :
            LET p == account_states[primary_cash]
            IN  ( /\ p.start_m <= mm
                  /\ (zeroed_at_end(primary_cash) => mm < p.end_m) )
                => snapshot_balance(mm, primary_cash) =
                      RAdd(RMul(RAdd(cash_before(mm), records[mm + 1].NetCashflow),
                                IF mm <= p.end_m THEN RAdd(One, item_rate(p.item))
                                ELSE One),
                           proceeds_of(mm))

\* a primary cash account with a non-zero rate and non-zero net cash flow in
\* whose window an investment with a non-zero rate was liquidated, after at
\* least one month of growth of both
C27_Witness ==
    /\ pc = "done"
    /\ names_unique
    /\ item_rate(account_states[primary_cash].item) # Zero
    /\ \E k \in 1..Len(account_states) :
          /\ liquidates_in(account_states[k].end_m, k)
          /\ item_rate(account_states[k].item) # Zero
          /\ account_states[k].completed
          /\ account_states[k].start_m < account_states[k].end_m
          /\ account_states[primary_cash].start_m < account_states[k].end_m
          /\ account_states[k].end_m <= account_states[primary_cash].end_m
          /\ records[account_states[k].end_m + 1].NetCashflow # Zero
          /\ grown_balance(account_states[k].end_m, k) # balance_before(account_states[k].end_m, k)
          /\ snapshot_balance(account_states[k].end_m, primary_cash) # Zero

\* the category is cash or investment, in any letter case
is_liquid_category(c) == Lower(c) = cash \/ Lower(c) = investment

\* C28: the snapshot a month emits has NetWorth equal to the sum of the
\* balances of all accounts of the run and Liquid equal to the sum of the
\* balances of all accounts of category cash or investment, active or not,
\* completed or not; account names being unique, NetWorth is also the sum of
\* the snapshot's per-account balance fields
C28_NetWorthAndLiquid ==
    [][ pc = "emit" =>
          LET snapshot == records'[Len(records')]
              n == Len(account_states)
          IN  /\ Len(records') = Len(records) + 1
              /\ snapshot.NetWorth = RSum([k \in 1..n |-> account_states[k].value])
              /\ snapshot.Liquid =
                    RSum([k \in 1..n |->
                            IF is_liquid_category(account_states[k].item.category)
                            THEN account_states[k].value ELSE Zero])
              /\ names_unique =>
                    snapshot.NetWorth =
                        RSum([k \in 1..n |-> snapshot.balances[account_states[k].item.name]])
      ]_vars

\* a snapshot over a completed cash or investment account that holds a balance
\* although it is not active
C28_Witness ==
    /\ emitted
    /\ Len(records) >= 1
    /\ \E k \in 1..Len(account_states) :
          /\ account_states[k].completed
          /\ is_liquid_category(account_states[k].item.category)
          /\ account_states[k].value # Zero
    /\ records[Len(records)].Liquid # Zero

\* a snapshot of a run with unique names over a negative balance and an
\* account that is neither cash nor investment
C28_WitnessDebt ==
    /\ emitted
    /\ names_unique
    /\ Len(records) >= 1
    /\ \E k \in 1..Len(account_states) :
          /\ RIsNeg(account_states[k].value)
          /\ ~is_liquid_category(account_states[k].item.category)
    /\ records[Len(records)].Liquid # records[Len(records)].NetWorth
    /\ records[Len(records)].Liquid # Zero

\* C29: every account shows the balance 0 in the snapshots of the months
\* before its start month, and the activation step gives it its initial value
\* on top of what was credited to it before, discarding nothing.  The code
\* credits liquidation proceeds to a primary cash account that has not started
\* (line 120) and overwrites them with the initial value at activation (line 88).
C29_NothingDiscardedAtActivation ==
    [][ /\ emitted =>
              \A k \in 1..Len(account_states) : \A mm \in 0..(Len(records) - 1) :
                  (name_unique(k) /\ mm < account_states[k].start_m)
                      => snapshot_balance(mm, k) = Zero
        /\ pc = "begin" =>
              \A k \in 1..Len(account_states) :
                  (~account_states[k].active /\ account_states'[k].active) =>
                      account_states'[k].value =
                          RAdd(account_states[k].initial_value, account_states[k].value)
      ]_vars

-----------------------------------------------------------------------------
(* backend.py: the rows of a scenario request and their parsing *)

\* a JSON value under a numeric key: a number; a string that is not a number,
\* such as "abc"; or nothing (the key is missing, or holds null or "")
Number(x) == [kind |-> "number", v |-> x]

Text == [kind |-> "text", v |-> Zero]

Absent == [kind |-> "absent", v |-> Zero]

\* a month cell: "YYYY-MM"; a string of another shape, such as "soon"; or ""
MonthString(y, mo) == [kind |-> "year-month", y |-> y, mo |-> mo]

NotAMonth == [kind |-> "other", y |-> 0, mo |-> 0]

NoMonth == [kind |-> "empty", y |-> 0, mo |-> 0]

\* the outcome of a parse: the items it returns, or the ValueError it raises
Returned(items) == [raised |-> FALSE, items |-> items]

RaisedValueError == [raised |-> TRUE, items |-> <<>>]

\* float(x or 0.0) raises ValueError for a string that is not a number
float_raises(field) == field.kind = "text"

\* float(x or 0.0) when it returns
float_or_zero(field) == IF field.kind = "number" THEN field.v ELSE Zero

\* backend.py:41-49
month_string_to_year_offset(month_str, plan_start_year) ==
    IF month_str.kind = "empty" THEN Zero
    ELSE IF month_str.kind = "other" THEN Zero
    ELSE RMax(Zero, RAdd(FromInt(month_str.y - plan_start_year), Rat(month_str.mo - 1, 12)))

\* backend.py:62-63
is_taxable_income_category(category) ==
    Lower(rstrip(lstrip(category))) \in
        { <<"s", "a", "l", "a", "r", "y">>, <<"b", "o", "n", "u", "s">>,
          <<"b", "u", "s", "i", "n", "e", "s", "s">> }

\* backend.py:69-74: the row is passed over
account_row_skipped(row) ==
    \/ rstrip(lstrip(row.Name)) = <<>>
    \/ (~float_raises(row.Amount) /\ float_or_zero(row.Amount) = Zero)

\* backend.py:72, 82, 83: a float() of the row raises
account_row_raises(row) ==
    /\ rstrip(lstrip(row.Name)) # <<>>
    /\ \/ float_raises(row.Amount)
       \/ /\ float_or_zero(row.Amount) # Zero
          /\ (float_raises(row.APR) \/ float_raises(row.InterestRate))

\* backend.py:77-88
account_of_row(row, plan_start_year) ==
    AccountItem(rstrip(lstrip(row.Name)),
                Lower(row.Category),
                float_or_zero(row.Amount),
                RDivInt(float_or_zero(row.APR), 100),
                RDivInt(float_or_zero(row.InterestRate), 100),
                month_string_to_year_offset(row.StartMonth, plan_start_year),
                month_string_to_year_offset(row.EndMonth, plan_start_year),
                row.ActionAtEnd)

\* the items of the rows before the first one that raises, or of all rows
RECURSIVE accounts_of_rows(_, _)
accounts_of_rows(rows, plan_start_year) ==
    IF rows = <<>> THEN <<>>
    ELSE IF account_row_skipped(Head(rows))
         THEN accounts_of_rows(Tail(rows), plan_start_year)
         ELSE <<account_of_row(Head(rows), plan_start_year)>>
              \o accounts_of_rows(Tail(rows), plan_start_year)

\* backend.py:66-89
parse_accounts(rows, plan_start_year) ==
    IF \E k \in 1..Len(rows) : account_row_raises(rows[k]) THEN RaisedValueError
    ELSE Returned(accounts_of_rows(rows, plan_start_year))

\* backend.py:95-100
cashflow_row_skipped(row) ==
    \/ rstrip(lstrip(row.Name)) = <<>>
    \/ (~float_raises(row.AnnualAmount) /\ float_or_zero(row.AnnualAmount) = Zero)

\* backend.py:98
cashflow_row_raises(row) ==
    rstrip(lstrip(row.Name)) # <<>> /\ float_raises(row.AnnualAmount)

\* backend.py:104-114
cashflow_of_row(row, plan_start_year, flow_type) ==
    CashflowItem(rstrip(lstrip(row.Name)),
                 float_or_zero(row.AnnualAmount),
                 row.Category,
                 month_string_to_year_offset(row.StartMonth, plan_start_year),
                 month_string_to_year_offset(row.EndMonth, plan_start_year),
                 flow_type,
                 flow_type = "income" /\ is_taxable_income_category(row.Category),
                 Zero)

RECURSIVE cashflows_of_rows(_, _, _)
cashflows_of_rows(rows, plan_start_year, flow_type) ==
    IF rows = <<>> THEN <<>>
    ELSE IF cashflow_row_skipped(Head(rows))
         THEN cashflows_of_rows(Tail(rows), plan_start_year, flow_type)
         ELSE <<cashflow_of_row(Head(rows), plan_start_year, flow_type)>>
              \o cashflows_of_rows(Tail(rows), plan_start_year, flow_type)

\* backend.py:92-115
parse_cashflows(rows, plan_start_year, flow_type) ==
    IF \E k \in 1..Len(rows) : cashflow_row_raises(rows[k]) THEN RaisedValueError
    ELSE Returned(cashflows_of_rows(rows, plan_start_year, flow_type))

-----------------------------------------------------------------------------
(* backend.py: POST /api/scenarios *)

\* the keys every snapshot has, simulator.py:139-152 and 169-170
SnapshotColumns ==
    {"Scenario", "MonthIndex", "Month", "CalendarYear", "MonthInYear", "TotalIncome",
     "TotalSpending", "TaxableIncome", "TaxableInvestmentGrowth", "TaxableBase",
     "TotalTax", "NetCashflow", "Liquid", "NetWorth"}

\* simulator.py:173: pd.DataFrame(records), one column per snapshot key, the
\* account balances under the accounts' names
frame_of(recs) ==
    LET names == DOMAIN recs[1].balances
        columns == SnapshotColumns \cup {join(nm) : nm \in names}
    IN  DataFrame(columns,
                  [k \in 1..Len(recs) |->
                      [c \in columns |->
                          IF c \in SnapshotColumns THEN recs[k][c]
                          ELSE recs[k].balances[CHOOSE nm \in names : join(nm) = c]]])

\* what the handler has decided when it is done with the payload: an error
\* response, or the plan it hands to simulate_monthly
Rejected(status, error) == [accepted |-> FALSE, status |-> status, error |-> error, cfg |-> Null]

Accepted(plan) == [accepted |-> TRUE, status |-> 200, error |-> "", cfg |-> plan]

\* a slip: the check for an empty account list is missing
payload_to_plan_unchecked(payload) ==
    IF payload.years.kind = "text" THEN Rejected(400, "Invalid plan parameters.")
    ELSE LET accounts_list == parse_accounts(payload.accounts, payload.startYear)
             income_list == parse_cashflows(payload.income, payload.startYear, "income")
             spending_list == parse_cashflows(payload.spending, payload.startYear, "spending")
         IN  IF accounts_list.raised \/ income_list.raised \/ spending_list.raised
             THEN Rejected(500, "ValueError")
             ELSE Accepted([name |-> payload.name,
                            start_year |-> payload.startYear,
                            years |-> payload.years.v[1] \div payload.years.v[2],
                            tax_rate |-> RDivInt(payload.taxRate, 100),
                            accounts |-> accounts_list.items,
                            incomes |-> income_list.items,
                            spendings |-> spending_list.items,
                            living_inflation_rate |-> Zero])

\* backend.py:375-408: invalid plan parameters and an empty account list are
\* answered with 400; a ValueError of the parsers is not caught, which the
\* server answers with 500
payload_to_plan(payload) ==
    IF payload.years.kind = "text" THEN Rejected(400, "Invalid plan parameters.")
    ELSE LET accounts_list == parse_accounts(payload.accounts, payload.startYear)
         IN  IF accounts_list.raised THEN Rejected(500, "ValueError")
             ELSE IF accounts_list.items = <<>>
             THEN Rejected(400, "At least one account with a non-zero principal is required.")
             ELSE LET income_list == parse_cashflows(payload.income, payload.startYear, "income")
                      spending_list ==
                          parse_cashflows(payload.spending, payload.startYear, "spending")
                  IN  IF income_list.raised \/ spending_list.raised
                      THEN Rejected(500, "ValueError")
                      ELSE Accepted([name |-> payload.name,
                                     start_year |-> payload.startYear,
                                     years |-> payload.years.v[1] \div payload.years.v[2],
                                     tax_rate |-> RDivInt(payload.taxRate, 100),
                                     accounts |-> accounts_list.items,
                                     incomes |-> income_list.items,
                                     spendings |-> spending_list.items,
                                     living_inflation_rate |-> Zero])

\* backend.py:376
payload_freq(payload) ==
    Upper(IF payload.freq \in {NoArg, <<>>} THEN <<"Q">> ELSE payload.freq)

\* largest number of rows in a table of a request
MaxRows == 2

AccountRow(name, amount, apr, from_month, to_month, category, action) ==
    [Name |-> name, Amount |-> amount, APR |-> apr, InterestRate |-> Absent,
     StartMonth |-> from_month, EndMonth |-> to_month, Category |-> category,
     ActionAtEnd |-> action]

AccountRows ==
    { \* a cash account, no months given
      AccountRow(<<"C">>, Number(FromInt(1000)), Absent, NoMonth, NoMonth,
                 <<"C", "a", "s", "h">>, "keep"),
      \* an investment doubling each month, liquidated in June; its start month
      \* is not a month
      AccountRow(<<" ", "I">>, Number(FromInt(8)), Number(FromInt(1200)), NotAMonth,
                 MonthString(2024, 6), investment, "liquidate_to_cash"),
      \* a row without a name
      AccountRow(<<" ", " ">>, Number(FromInt(5)), Absent, NoMonth, NoMonth, cash, "keep"),
      \* a row without an amount; its rate is not a number
      AccountRow(<<"C">>, Absent, Text, NoMonth, NoMonth, cash, "keep"),
      \* a row with an amount of 0
      AccountRow(<<"I">>, Number(Zero), Absent, NoMonth, NoMonth, investment, "keep"),
      \* a row whose amount is not a number
      AccountRow(<<"I">>, Text, Absent, NoMonth, NoMonth, investment, "keep"),
      \* a row whose rate is not a number
      AccountRow(<<"C">>, Number(FromInt(10)), Text, NoMonth, NoMonth, cash, "keep") }

CashflowRow(name, amount, category, from_month, to_month) ==
    [Name |-> name, AnnualAmount |-> amount, Category |-> category,
     StartMonth |-> from_month, EndMonth |-> to_month]

SalaryRow ==
    CashflowRow(<<"P", "a", "y">>, Number(FromInt(12000)), <<" ", "S", "a", "l", "a", "r", "y">>,
                NotAMonth, NoMonth)

LivingRow ==
    CashflowRow(<<"R", "e", "n", "t">>, Number(FromInt(2400)), <<"l", "i", "v", "i", "n", "g">>,
                MonthString(2024, 3), MonthString(2023, 1))

UnnamedRow == CashflowRow(<<>>, Text, <<>>, NoMonth, NoMonth)

BadAmountRow == CashflowRow(<<"G", "i", "f", "t">>, Text, <<"o", "t", "h", "e", "r">>, NoMonth, NoMonth)

\* <<income rows, spending rows>>
CashflowRowLists ==
    { <<<<>>, <<>>>>,
      <<<<SalaryRow, UnnamedRow>>, <<LivingRow>>>>,
      <<<<BadAmountRow>>, <<>>>>,
      <<<<SalaryRow>>, <<BadAmountRow>>>> }

AccountRowLists == UNION {[1..k -> AccountRows] : k \in 0..MaxRows}

Payload(name, years, accounts, cashflows, f) ==
    [name |-> name, startYear |-> 2024, years |-> years, taxRate |-> FromInt(25),
     accounts |-> accounts, income |-> cashflows[1], spending |-> cashflows[2], freq |-> f]

\* every list of account rows with a salary and a rent; and one list of account
\* rows with every other combination of the remaining fields
Payloads_of_requests ==
    { Payload(name, Number(One), a, <<<<SalaryRow, UnnamedRow>>, <<LivingRow>>>>, NoArg) :
        name \in StoreNames, a \in AccountRowLists }
    \cup
    { Payload(name, y, a, c, f) :
        name \in StoreNames, y \in {Number(One), Number(Zero), Text},
        a \in {r \in AccountRowLists : Len(r) = 1 /\ r[1].Name = <<"C">>
                                        /\ r[1].Amount = Number(FromInt(1000))},
        c \in CashflowRowLists, f \in {NoArg, <<"m">>} }

\* a request has arrived; the store holds what an earlier session saved
PostInit ==
    /\ request \in Payloads_of_requests
    /\ history \in EarlierSessions
    /\ scenarios_file = IF history = <<>> THEN Null ELSE save_scenarios(replay(history))
    /\ scenarios = load_scenarios(scenarios_file)
    /\ response = Null
    /\ pc = "request"
    /\ ledger = Null
    /\ SimIdle
    /\ AggIdle
    /\ RunIdle
    /\ PlanIdle
    /\ CatIdle

\* backend.py:375-393, 397-406: the request is answered with an error
RejectRequest ==
    /\ pc = "request"
    /\ ~payload_to_plan(request).accepted
    /\ response' = [status |-> payload_to_plan(request).status,
                    error |-> payload_to_plan(request).error]
    /\ pc' = "responded"
    /\ UNCHANGED <<simVarsButPc, scenarios, scenarios_file, history, request, ledger>>
    /\ UNCHANGED <<aggVars, runVars, planVars, catVars>>

\* backend.py:375-410 and simulator.py:55-65: the plan is built and
\* simulate_monthly is called on it
SimulateRequest ==
    /\ pc = "request"
    /\ payload_to_plan(request).accepted
    /\ LET w == setup(payload_to_plan(request).cfg)
       IN  /\ cfg' = w.cfg
           /\ n_months' = w.n_months
           /\ account_states' = w.account_states
           /\ primary_cash' = w.primary_cash
           /\ income_states' = w.income_states
           /\ spending_states' = w.spending_states
           /\ records' = w.records
           /\ cash_buffer' = w.cash_buffer
           /\ pc' = IF 0 < w.n_months THEN "begin" ELSE "done"
    /\ m' = 0
    /\ idx' = 1
    /\ loc' = NoLocals
    /\ UNCHANGED <<scenarios, scenarios_file, history, response, request, ledger>>
    /\ UNCHANGED <<aggVars, runVars, planVars, catVars>>

\* backend.py:411-413: the run is stored under the plan's name and the
\* aggregated payload of all stored scenarios is returned
StoreScenario ==
    /\ pc = "done"
    /\ LET store == add_scenario(scenarios, cfg.name, frame_of(records))
       IN  /\ scenarios' = store
           /\ scenarios_file' = save_scenarios(store)
           /\ history' = Append(history, <<"add", cfg.name, frame_of(records)>>)
           /\ response' = [status |-> 200,
                           body |-> _aggregated_payload(store, payload_freq(request))]
    /\ pc' = "responded"
    /\ UNCHANGED <<simVarsButPc, request, ledger>>
    /\ UNCHANGED <<aggVars, runVars, planVars, catVars>>

PostNext ==
    \/ RejectRequest
    \/ SimulateRequest
    \/ StoreScenario
    \/ BeginMonth
    \/ ComputeTax
    \/ ApplyCash
    \/ ApplyGrowth
    \/ EndAction
    \/ EmitSnapshot

PostSpec == PostInit /\ [][PostNext]_vars

-----------------------------------------------------------------------------
(* Properties of POST /api/scenarios, checked under PostSpec *)

\* the name is empty once blanks are stripped
is_blank(name) == \A j \in 1..Len(name) : name[j] = " "

\* the row gives an account: a non-empty name and a non-zero principal
yields_account(row) ==
    ~is_blank(row.Name) /\ row.Amount.kind = "number" /\ row.Amount.v # Zero

\* no float() of the handler has a string that is not a number to convert
all_numeric(payload) ==
    /\ payload.years.kind # "text"
    /\ \A k \in 1..Len(payload.accounts) :
          payload.accounts[k].Amount.kind # "text"

\* C21: a request whose account rows give no account with a non-empty name
\* and a non-zero principal is answered with an error without simulate_monthly
\* being called, and the scenario store and its file are left as they were;
\* when moreover every amount is a number or missing, the answer is the 400
\* that asks for at least one account
C21_NoAccountsRejected ==
    [][ ( /\ pc = "request"
          /\ \A k \in 1..Len(request.accounts) : ~yields_account(request.accounts[k]) )
        => /\ pc' = "responded"
           /\ response'.status >= 400
           /\ scenarios' = scenarios
           /\ scenarios_file' = scenarios_file
           /\ n_months' = 0
           /\ account_states' = <<>>
           /\ records' = <<>>
           /\ all_numeric(request) =>
                 /\ response'.status = 400
                 /\ response'.error =
                       "At least one account with a non-zero principal is required."
      ]_vars

\* a request with two account rows, one without a name and one without a
\* principal, was answered with 400 while the store holds a scenario
C21_Witness ==
    /\ pc = "responded"
    /\ response.status = 400
    /\ request.years.kind = "number"
    /\ Len(request.accounts) = 2
    /\ \E k \in 1..2 : is_blank(request.accounts[k].Name)
    /\ \E k \in 1..2 : ~is_blank(request.accounts[k].Name)
    /\ \A k \in 1..2 : ~yields_account(request.accounts[k])
    /\ scenarios # <<>>
    /\ n_months = 0

\* C22: an amount, principal or rate that is not a number and a month string
\* that is not a month are treated as zero or empty: parse_accounts and
\* parse_cashflows raise no exception on the rows of the request, and the
\* request is not answered with the 500 of an exception that was not caught.
\* The code converts with float(x or 0.0) outside any try block.
C22_ParsedDefensively ==
    pc = "responded" =>
        /\ ~parse_accounts(request.accounts, request.startYear).raised
        /\ ~parse_cashflows(request.income, request.startYear, "income").raised
        /\ ~parse_cashflows(request.spending, request.startYear, "spending").raised
        /\ response.status # 500

-----------------------------------------------------------------------------
(* backend/statements/ingestion.py and backend.py:272-364: the ledger of   *)
(* imported statements.  The database has three tables, imports,           *)
(* transactions and attachments, and the uploaded files are kept in the    *)
(* attachments directory.  A table is the set of its rows, a row holding   *)
(* the columns the statements of the code select on.  The tables are       *)
(* created by schema.sql; the code relies on txn_id being unique           *)
(* (ingestion.py:252-258), and no connection of the code turns foreign key *)
(* enforcement on, so a delete removes the rows its WHERE clause selects   *)
(* and no others.                                                          *)

MaxImports == 3

\* a row of a statement as csv.DictReader gives it
StatementRow(date, description, amount) ==
    [Date |-> date, Description |-> description, Amount |-> amount]

\* an uploaded file: its name, the digest of its bytes, its rows
Statement(filename, digest, rows) ==
    [filename |-> filename, file_hash |-> digest, rows |-> rows]

Statements ==
    { Statement("jan.csv", "h1",
          << StatementRow("2024-01-05", <<"R", "e", "n", "t">>, Number(FromInt(-900))),
             StatementRow("2024-01-09", <<"T", "e", "a">>, Number(Rat(-25, 2))) >>),
      Statement("feb.csv", "h2",
          << StatementRow("2024-01-09", <<"t", "e", "a", " ">>, Number(Rat(-12504, 1000))),
             StatementRow("2024-02-01", <<>>, Number(One)),
             StatementRow("2024-02-03", <<"G", "a", "s">>, Text) >>) }

\* the account names of the requests; the two differ by case only
LedgerAccounts == { <<"A">>, <<"a">> }

\* ingestion.py:144-180, parse_transaction_generic on a row with the columns
\* Date, Description and Amount: no result without a date or a description,
\* with an amount that float() rejects, or with no amount at all
parse_transaction_generic(row) ==
    IF row.Date = "" \/ rstrip(lstrip(row.Description)) = <<>> \/ row.Amount.kind # "number"
    THEN [parsed |-> FALSE, date |-> "", amount |-> Zero, desc |-> <<>>]
    ELSE [parsed |-> TRUE, date |-> row.Date, amount |-> row.Amount.v,
          desc |-> rstrip(lstrip(row.Description))]

\* ingestion.py:51-53: the digest of date|amount to two decimals|description
\* stripped and lowered|account lowered, given as the tuple of its fields
transaction_hash(date, amount, description, account) ==
    <<date, RoundHalfEven(RMul(amount, FromInt(100))),
      Lower(rstrip(lstrip(description))), Lower(account)>>

\* ingestion.py:240-260: the loop over the rows; an INSERT of a txn_id the
\* table holds raises IntegrityError and is counted as a duplicate
RECURSIVE insert_rows(_, _, _, _)
insert_rows(rows, import_id, account_name, acc) ==
    IF rows = <<>> THEN acc
    ELSE LET r == parse_transaction_generic(Head(rows))
             txnid == transaction_hash(r.date, r.amount, r.desc, account_name)
             next ==
                 IF ~r.parsed THEN [acc EXCEPT !.errors = @ + 1]
                 ELSE IF \E t \in acc.transactions : t.txn_id = txnid
                 THEN [acc EXCEPT !.duplicate = @ + 1]
                 ELSE [acc EXCEPT !.parsed = @ + 1,
                                  !.transactions = @ \cup
                                      {[txn_id |-> txnid, import_id |-> import_id,
                                        account |-> account_name]}]
         IN  insert_rows(Tail(rows), import_id, account_name, next)

\* the database and the attachments directory before the first import
EmptyLedger ==
    [imports |-> {}, transactions |-> {}, attachments |-> {}, files |-> {}, issued |-> 0]

\* ingestion.py:183-276, import_csv_bytes: the ledger after the call and what
\* the call returns.  import_id is made of the time and a random part, so
\* every call has one of its own: the number of the call.
import_csv_bytes(led, file, account_name, force) ==
    IF ~force /\ \E i \in led.imports : i.file_hash = file.file_hash
    THEN [ledger |-> [led EXCEPT !.issued = @ + 1],
          result |-> [imported |-> FALSE, import_id |-> 0,
                      rows_parsed |-> 0, rows_duplicate |-> 0, rows_error |-> 0]]
    ELSE LET import_id == led.issued + 1
             done == insert_rows(file.rows, import_id, account_name,
                                 [transactions |-> led.transactions,
                                  parsed |-> 0, duplicate |-> 0, errors |-> 0])
         IN  [ledger |->
                  [imports |-> led.imports \cup
                       {[import_id |-> import_id, account_name |-> account_name,
                         file_hash |-> file.file_hash]},
                   attachments |-> led.attachments \cup
                       {[import_id |-> import_id, filename |-> file.filename]},
                   files |-> led.files \cup {<<import_id, file.filename>>},
                   transactions |-> done.transactions,
                   issued |-> import_id],
              result |-> [imported |-> TRUE, import_id |-> import_id,
                          rows_parsed |-> done.parsed, rows_duplicate |-> done.duplicate,
                          rows_error |-> done.errors]]

\* backend.py:335-359, the statements of delete_transactions_by_account in
\* the order the code executes them
delete_by_account(led, account) ==
    LET import_ids == {i.import_id : i \in {x \in led.imports : x.account_name = account}}
        deleted == {t \in led.transactions : t.account = account}
        transactions1 == led.transactions \ deleted
        imports1 == {i \in led.imports : i.account_name # account}
        selected == {i.import_id : i \in {x \in imports1 : x.account_name = account}}
        attachments1 == {a \in led.attachments : a.import_id \notin selected}
        files1 == {f \in led.files : f[1] \notin import_ids}
    IN  [ledger |-> [led EXCEPT !.transactions = transactions1,
                                !.imports = imports1,
                                !.attachments = attachments1,
                                !.files = files1],
         count |-> Cardinality(deleted)]

\* the server has started; nothing was imported yet
LedgerInit ==
    /\ ledger = EmptyLedger
    /\ request = Null
    /\ pc = "ledger"
    /\ SimIdle
    /\ AggIdle
    /\ StoreIdle
    /\ RunIdle
    /\ PlanIdle
    /\ CatIdle

\* backend.py:273-295, POST /api/transactions/import
ImportTransactions ==
    /\ ledger.issued < MaxImports
    /\ \E file \in Statements, account_name \in LedgerAccounts, force \in BOOLEAN :
          LET call == import_csv_bytes(ledger, file, account_name, force)
          IN  /\ ledger' = call.ledger
              /\ response' = [endpoint |-> "POST /api/transactions/import",
                              status |-> IF call.result.imported THEN 200 ELSE 400,
                              account |-> account_name,
                              result |-> call.result]
    /\ UNCHANGED <<simVars, aggVars, scenarios, scenarios_file, history, request>>
    /\ UNCHANGED <<runVars, planVars, catVars>>

\* backend.py:314-364, DELETE /api/transactions?account=...
DeleteTransactions ==
    /\ \E account \in LedgerAccounts :
          LET call == delete_by_account(ledger, account)
          IN  /\ ledger' = call.ledger
              /\ response' = [endpoint |-> "DELETE /api/transactions",
                              status |-> 200,
                              account |-> account,
                              result |-> [imported |-> FALSE, import_id |-> 0,
                                          rows_parsed |-> call.count,
                                          rows_duplicate |-> 0, rows_error |-> 0]]
    /\ UNCHANGED <<simVars, aggVars, scenarios, scenarios_file, history, request>>
    /\ UNCHANGED <<runVars, planVars, catVars>>

\* backend.py:320-322: the request names no account
DeleteWithoutAccount ==
    /\ response' = [endpoint |-> "DELETE /api/transactions",
                    status |-> 400,
                    account |-> <<>>,
                    result |-> [imported |-> FALSE, import_id |-> 0,
                                rows_parsed |-> 0, rows_duplicate |-> 0, rows_error |-> 0]]
    /\ UNCHANGED <<simVars, aggVars, scenarios, scenarios_file, history, request, ledger>>
    /\ UNCHANGED <<runVars, planVars, catVars>>

LedgerNext ==
    \/ ImportTransactions
    \/ DeleteTransactions
    \/ DeleteWithoutAccount

LedgerSpec == LedgerInit /\ [][LedgerNext]_vars

-----------------------------------------------------------------------------
(* Properties of the ledger, checked under LedgerSpec *)

\* the step is a DELETE /api/transactions for the account that succeeded
deleted_account(account) ==
    /\ response'.endpoint = "DELETE /api/transactions"
    /\ response'.status = 200
    /\ response'.account = account

\* the import ids of the account's imports
imports_of(led, account) ==
    {i.import_id : i \in {x \in led.imports : x.account_name = account}}

\* C30: after delete_transactions_by_account(account) succeeds, the ledger
\* holds no transaction of the account, no import record of the account, and
\* no attachment record of an import that was the account's.  The code
\* deletes the import records first and selects the attachment records by
\* the import records that are left, which are none.
C30_AccountRemovedFromLedger ==
    [][ \A account \in LedgerAccounts :
          deleted_account(account) =>
              /\ \A t \in ledger'.transactions : t.account # account
              /\ \A i \in ledger'.imports : i.account_name # account
              /\ \A a \in ledger'.attachments :
                    a.import_id \notin imports_of(ledger, account)
      ]_vars

\* the part of C30 about transactions, import records and files on disk
LedgerRowsRemoved ==
    [][ \A account \in LedgerAccounts :
          deleted_account(account) =>
              /\ \A t \in ledger'.transactions : t.account # account
              /\ \A i \in ledger'.imports : i.account_name # account
              /\ \A f \in ledger'.files : f[1] \notin imports_of(ledger, account)
      ]_vars

\* an account with an import, its transactions and its attachment was deleted
LedgerDeleteReached ==
    /\ response # Null
    /\ response.endpoint = "DELETE /api/transactions"
    /\ response.status = 200
    /\ response.result.rows_parsed > 0
    /\ ledger.attachments # {}
    /\ ledger.imports = {}

====
